---------------------------- MODULE Spec2Model ----------------------------
(***************************************************************************)
(* A model of the Figma-to-PDF export plugin (src/code.js): the            *)
(* rasterization classifier, the segment planner, the scene mutator, the   *)
(* tracked frame / connection lists with their message handlers, and the   *)
(* vector export pass.                                                     *)
(*                                                                         *)
(* Specifications                                                          *)
(*   Spec      the controller: selection-change events, clear-list,        *)
(*             export-batch and request-png-fallback handlers, each one    *)
(*             running from its event (or from the return of the host      *)
(*             call it awaits) to its next await                           *)
(*   SpecLive  the controller when every host call returns in the end      *)
(*   SpecPlan  analyzeFrameLayers, determineExportStrategy and             *)
(*             buildFrameSegments applied to every bounded node tree       *)
(*   SpecIso   captureNodeState, applySegmentState, restoreNodeState       *)
(*   SpecVec   one pass of performVectorExport                             *)
(*   SpecPdf   one export-pdf request: exportToPDF with its memory         *)
(*             estimate and batching, and the raster pass of performExport *)
(*   SpecRun   one export-pdf request carried to its hand-off, raster or   *)
(*             vector                                                      *)
(*   SpecVal   validatePDFData applied to every buffer of a bounded set    *)
(*   SpecDoc   the export handlers of one session (vector export-pdf,     *)
(*             export-batch, request-png-fallback) on one shared frame     *)
(*   SpecNode  the same three functions as SpecPlan on a frame with one    *)
(*             layer, over every combination of effects, blend mode and    *)
(*             mask flag                                                   *)
(***************************************************************************)
EXTENDS Integers, Sequences, FiniteSets, TLC

VARIABLES
  \* ---- the controller (Spec)
  frameData,      \* code.js:8   the tracked frame list
  connections,    \* code.js:9   the connection list
  tasks,          \* the handler invocations suspended at an await of a host call
  nEvents,        \* number of inbound events delivered so far
  outbox,         \* the notifications posted to the UI, oldest first
  \* ---- classifier and planner (SpecPlan)
  tree,           \* the node tree given to the functions
  ppc,            \* "input" -> "analysed" -> "decided" -> "planned"
  layerAnalysis,  \* result of analyzeFrameLayers
  decision,       \* result of determineExportStrategy
  segments,       \* result of buildFrameSegments
  \* ---- scene mutator (SpecIso)
  itree,          \* the frame subtree, with the nodes' current visible/fills/strokes
  ipc,            \* "fresh" -> "captured" -> "isolated" -> "restored"
  istate,         \* the snapshot taken by captureNodeState
  iorig,          \* the nodes as they were when the snapshot was taken
  isoCount,       \* number of applySegmentState calls since the snapshot
  lastSegment,    \* the segment nodes of the latest applySegmentState
  \* ---- one pass of performVectorExport (SpecVec)
  vp,             \* the pass: its frames, position, results and messages
  \* ---- one export-pdf request (SpecPdf)
  req             \* the request and the locals of exportToPDF / performExport

ctlVars  == <<frameData, connections, tasks, nEvents, outbox>>
planVars == <<tree, ppc, layerAnalysis, decision, segments>>
isoVars  == <<itree, ipc, istate, iorig, isoCount, lastSegment>>
vecVars  == <<vp, req>>
vars     == <<ctlVars, planVars, isoVars, vecVars>>

-----------------------------------------------------------------------------
(* Bounds                                                                  *)

MaxNodes == 3        \* nodes of a tree given to the classifier and the planner
MaxIsoNodes == 3     \* nodes of a tree given to the scene mutator
MaxIsolate == 2      \* applySegmentState calls between snapshot and restore

-----------------------------------------------------------------------------
(* Sequence helpers                                                        *)

Range(s) == { s[i] : i \in DOMAIN s }

RECURSIVE SeqSum(_)
SeqSum(s) == IF s = <<>> THEN 0 ELSE Head(s) + SeqSum(Tail(s))

\* Array.from(new Set(s)): the first occurrence of each element, in order.
RECURSIVE Dedup(_)
Dedup(s) ==
  IF s = <<>> THEN <<>>
  ELSE LET init == Dedup(SubSeq(s, 1, Len(s) - 1))
           last == s[Len(s)]
       IN IF last \in Range(init) THEN init ELSE Append(init, last)

\* Number of positions of s holding x.
Occurrences(s, x) == Cardinality({ i \in DOMAIN s : s[i] = x })

\* The ascending sequence of a finite set of integers.
RECURSIVE SortedSeq(_)
SortedSeq(S) ==
  IF S = {} THEN <<>>
  ELSE LET m == CHOOSE x \in S : \A y \in S : x <= y
       IN <<m>> \o SortedSeq(S \ {m})

-----------------------------------------------------------------------------
(* The scene graph.  A tree is [n, parent, node]: nodes 1..n, node 1 the   *)
(* root, parent[i] < i the parent of i (0 for the root), the children of a *)
(* node in ascending order, node[i] the node's properties.  fills and      *)
(* strokes are tagged: "absent" (the node kind has no such property),      *)
(* "mixed" (figma.mixed) or "paints" with the paint list.                  *)

Absent == [tag |-> "absent", paints |-> <<>>]
Mixed  == [tag |-> "mixed", paints |-> <<>>]
Paints(ps) == [tag |-> "paints", paints |-> ps]
VisiblePaint == [visible |-> TRUE]
HiddenPaint  == [visible |-> FALSE]

Effect(t, v) == [type |-> t, visible |-> v]

Node(ty, vis, eff, blend, mask, fi, st) ==
  [type |-> ty, visible |-> vis, effects |-> eff, blendMode |-> blend,
   isMask |-> mask, fills |-> fi, strokes |-> st, hyperlink |-> Absent]

\* node.hyperlink of a TEXT node that links to a URL (code.js:217-225).
UrlHyperlink == [tag |-> "hyperlink", type |-> "URL", value |-> "https://example.com"]
LinkedText ==
  [Node("TEXT", TRUE, <<>>, "NORMAL", FALSE, Paints(<<[visible |-> TRUE]>>), Paints(<<>>))
     EXCEPT !.hyperlink = UrlHyperlink]

Children(t, p) == SortedSeq({ c \in 1..t.n : t.parent[c] = p })

\* 'children' in node: containers have the property, leaves do not.
HasChildrenProp(nd) == nd.type \in {"DOCUMENT", "PAGE", "FRAME", "GROUP"}

MUST_RASTERIZE_EFFECTS == {"LAYER_BLUR", "BACKGROUND_BLUR"}
SHOULD_RASTERIZE_EFFECTS == {"DROP_SHADOW", "INNER_SHADOW"}
PROBLEMATIC_BLEND_MODES ==
  {"MULTIPLY", "SCREEN", "OVERLAY", "DARKEN", "LIGHTEN", "COLOR_DODGE",
   "COLOR_BURN", "HARD_LIGHT", "SOFT_LIGHT", "DIFFERENCE", "EXCLUSION", "HUE",
   "SATURATION", "COLOR", "LUMINOSITY", "PLUS_DARKER", "PLUS_LIGHTER"}
RASTERIZE_EFFECTS == MUST_RASTERIZE_EFFECTS \cup SHOULD_RASTERIZE_EFFECTS

hasVisiblePaints(p) ==
  /\ p.tag = "paints"
  /\ \E i \in DOMAIN p.paints : p.paints[i].visible # FALSE

nodeHasRenderableSelf(nd) ==
  \/ nd.type = "TEXT"
  \/ nd.fills.tag # "absent" /\ hasVisiblePaints(nd.fills)
  \/ nd.strokes.tag # "absent" /\ hasVisiblePaints(nd.strokes)

\* Mutant of nodeNeedsRaster: only the must-rasterize effects are looked for.
nodeNeedsRasterMustOnly(nd) ==
  \/ \E i \in DOMAIN nd.effects :
        nd.effects[i].visible # FALSE /\ nd.effects[i].type \in MUST_RASTERIZE_EFFECTS
  \/ nd.blendMode \in PROBLEMATIC_BLEND_MODES
  \/ nd.isMask /\ Len(nd.effects) > 0

nodeNeedsRaster(nd) ==
  \/ \E i \in DOMAIN nd.effects :
        nd.effects[i].visible # FALSE /\ nd.effects[i].type \in RASTERIZE_EFFECTS
  \/ nd.blendMode \in PROBLEMATIC_BLEND_MODES
  \/ nd.isMask /\ Len(nd.effects) > 0

\* Pre-order walk of the subtree of n, n first (the explicit stack of the
\* source pushes the children in reverse, so they pop in order).
RECURSIVE collectSubtreeNodes(_, _)
RECURSIVE CollectEach(_, _)
collectSubtreeNodes(t, n) ==
  <<n>> \o (IF HasChildrenProp(t.node[n]) THEN CollectEach(t, Children(t, n)) ELSE <<>>)
CollectEach(t, kids) ==
  IF kids = <<>> THEN <<>>
  ELSE collectSubtreeNodes(t, Head(kids)) \o CollectEach(t, Tail(kids))

collectAllNodes(t) == collectSubtreeNodes(t, 1)

\* The ancestors of n from its parent up to the stop node, the stop node last.
RECURSIVE AncestorsBelow(_, _, _)
AncestorsBelow(t, cur, stop) ==
  IF cur = 0 \/ cur = stop THEN <<>>
  ELSE <<cur>> \o AncestorsBelow(t, t.parent[cur], stop)
getAncestorChain(t, n, stop) == AncestorsBelow(t, t.parent[n], stop) \o <<stop>>


-----------------------------------------------------------------------------
(* Rasterization classifier: analyzeFrameLayers and determineExportStrategy *)

NewResults ==
  [totalLayers |-> 0, vectorLayers |-> 0, rasterLayers |-> 0, details |-> <<>>,
   hasCriticalEffects |-> FALSE, frameStrategy |-> "vector"]

NoIssues == [needsRaster |-> FALSE, critical |-> FALSE, issues |-> <<>>]

\* The loop over node.effects (code.js:589-612): a visible must-rasterize
\* effect makes the layer raster and critical, a visible should-rasterize
\* effect only records an issue.
RECURSIVE EffectIssues(_, _)
EffectIssues(effects, acc) ==
  IF effects = <<>> THEN acc
  ELSE LET e == Head(effects)
           next ==
             IF e.visible = FALSE THEN acc
             ELSE IF e.type \in MUST_RASTERIZE_EFFECTS
               THEN [needsRaster |-> TRUE, critical |-> TRUE,
                     issues |-> Append(acc.issues, [type |-> "CRITICAL_EFFECT", what |-> e.type])]
             ELSE IF e.type \in SHOULD_RASTERIZE_EFFECTS
               THEN [acc EXCEPT !.issues = Append(@, [type |-> "SHADOW_EFFECT", what |-> e.type])]
             ELSE acc
       IN EffectIssues(Tail(effects), next)

\* The blend-mode check (code.js:615-623).
BlendIssues(nd, acc) ==
  IF nd.blendMode \in PROBLEMATIC_BLEND_MODES
    THEN [acc EXCEPT !.needsRaster = TRUE,
                     !.issues = Append(@, [type |-> "BLEND_MODE", what |-> nd.blendMode])]
    ELSE acc

\* The mask check (code.js:626-632).
MaskIssues(nd, acc) ==
  IF nd.isMask /\ Len(nd.effects) > 0
    THEN [acc EXCEPT !.needsRaster = TRUE,
                     !.issues = Append(@, [type |-> "MASKED_EFFECTS", what |-> "MASK"])]
    ELSE acc

\* What analyzeFrameLayers finds on one layer.
LayerVerdict(nd) == MaskIssues(nd, BlendIssues(nd, EffectIssues(nd.effects, NoIssues)))

\* Recording of one layer into the results (code.js:585-659).
RecordLayer(n, nd, depth, results) ==
  IF nd.type \in {"DOCUMENT", "PAGE"} THEN results
  ELSE LET v == LayerVerdict(nd)
           detail == [node |-> n, needsRaster |-> v.needsRaster,
                      issues |-> v.issues, depth |-> depth]
       IN [results EXCEPT
             !.totalLayers = @ + 1,
             !.hasCriticalEffects = @ \/ v.critical,
             !.rasterLayers = IF v.needsRaster THEN @ + 1 ELSE @,
             !.vectorLayers = IF v.needsRaster THEN @ ELSE @ + 1,
             !.details = IF v.needsRaster \/ v.issues # <<>> THEN Append(@, detail) ELSE @]

\* Mutant of FrameStrategy: the two tests in the other order.
FrameStrategyVectorFirst(results) ==
  IF results.vectorLayers = 0 THEN "raster"
  ELSE IF results.rasterLayers = 0 THEN "vector"
  ELSE "hybrid"

\* The overall strategy, set at the root only (code.js:668-680).
FrameStrategy(results) ==
  IF results.rasterLayers = 0 THEN "vector"
  ELSE IF results.vectorLayers = 0 THEN "raster"
  ELSE "hybrid"

RECURSIVE AnalyzeNode(_, _, _, _)
RECURSIVE AnalyzeEach(_, _, _, _)
AnalyzeNode(t, n, depth, results) ==
  LET nd == t.node[n]
      r1 == RecordLayer(n, nd, depth, results)
      r2 == IF HasChildrenProp(nd) THEN AnalyzeEach(t, Children(t, n), depth + 1, r1) ELSE r1
  IN IF depth = 0 THEN [r2 EXCEPT !.frameStrategy = FrameStrategy(r2)] ELSE r2
AnalyzeEach(t, kids, depth, results) ==
  IF kids = <<>> THEN results
  ELSE AnalyzeEach(t, Tail(kids), depth, AnalyzeNode(t, Head(kids), depth, results))

analyzeFrameLayers(t) == AnalyzeNode(t, 1, 0, NewResults)

\* Mutant of determineExportStrategy: hasCriticalEffects is not consulted.
determineExportStrategyNoCritical(la) ==
  LET stats == [vectorLayers |-> la.vectorLayers, rasterLayers |-> la.rasterLayers,
                total |-> la.vectorLayers + la.rasterLayers]
  IN IF la.frameStrategy = "vector" THEN [strategy |-> "vector", stats |-> stats]
     ELSE IF la.frameStrategy = "raster" THEN [strategy |-> "png", stats |-> stats]
     ELSE [strategy |-> "vector-with-fallback", stats |-> stats]

\* determineExportStrategy(issues, layerAnalysis) with a layer analysis given,
\* as performVectorExport calls it (code.js:1029).
determineExportStrategy(la) ==
  LET stats == [vectorLayers |-> la.vectorLayers, rasterLayers |-> la.rasterLayers,
                total |-> la.vectorLayers + la.rasterLayers]
  IN IF la.frameStrategy = "vector" THEN [strategy |-> "vector", stats |-> stats]
     ELSE IF la.frameStrategy = "raster" THEN [strategy |-> "png", stats |-> stats]
     ELSE IF la.hasCriticalEffects THEN [strategy |-> "png", stats |-> stats]
     ELSE [strategy |-> "vector-with-fallback", stats |-> stats]

-----------------------------------------------------------------------------
(* Segment planner: buildFrameSegments                                     *)

NoSegments == [segments |-> <<>>, currentVectorNodes |-> <<>>]

\* Mutant of flushVector: the open run is not emptied after the flush.
flushVectorKeep(acc) ==
  IF acc.currentVectorNodes = <<>> THEN acc
  ELSE [acc EXCEPT !.segments =
          Append(@, [type |-> "vector", nodes |-> Dedup(acc.currentVectorNodes)])]

flushVector(acc) ==
  IF acc.currentVectorNodes = <<>> THEN acc
  ELSE [segments |-> Append(acc.segments,
                            [type |-> "vector", nodes |-> Dedup(acc.currentVectorNodes)]),
        currentVectorNodes |-> <<>>]

RECURSIVE visit(_, _, _)
RECURSIVE VisitEach(_, _, _)

\* Mutant of visit: a raster node that follows a raster segment joins it.
visitMerging(t, n, acc) ==
  LET nd == t.node[n] IN
  IF nd.visible = FALSE THEN acc
  ELSE IF nodeNeedsRaster(nd)
    THEN LET a0 == flushVector(acc)
             last == Len(a0.segments)
         IN IF last > 0 /\ a0.segments[last].type = "raster"
              THEN [a0 EXCEPT !.segments[last].nodes = @ \o collectSubtreeNodes(t, n)]
              ELSE [a0 EXCEPT !.segments =
                      Append(@, [type |-> "raster", nodes |-> collectSubtreeNodes(t, n)])]
  ELSE LET a1 == IF nodeHasRenderableSelf(nd)
                   THEN [acc EXCEPT !.currentVectorNodes = Append(@, n)]
                   ELSE acc
       IN IF HasChildrenProp(nd) THEN VisitEach(t, Children(t, n), a1) ELSE a1

\* Mutant of visit: a hidden node is walked like a visible one.
visitHidden(t, n, acc) ==
  LET nd == t.node[n] IN
  IF nodeNeedsRaster(nd)
    THEN [flushVector(acc) EXCEPT
            !.segments = Append(@, [type |-> "raster", nodes |-> collectSubtreeNodes(t, n)])]
  ELSE LET a1 == IF nodeHasRenderableSelf(nd)
                   THEN [acc EXCEPT !.currentVectorNodes = Append(@, n)]
                   ELSE acc
       IN IF HasChildrenProp(nd) THEN VisitEach(t, Children(t, n), a1) ELSE a1

visit(t, n, acc) ==
  LET nd == t.node[n] IN
  IF nd.visible = FALSE THEN acc
  ELSE IF nodeNeedsRaster(nd)
    THEN [flushVector(acc) EXCEPT
            !.segments = Append(@, [type |-> "raster", nodes |-> collectSubtreeNodes(t, n)])]
  ELSE LET a1 == IF nodeHasRenderableSelf(nd)
                   THEN [acc EXCEPT !.currentVectorNodes = Append(@, n)]
                   ELSE acc
       IN IF HasChildrenProp(nd) THEN VisitEach(t, Children(t, n), a1) ELSE a1
VisitEach(t, kids, acc) ==
  IF kids = <<>> THEN acc
  ELSE VisitEach(t, Tail(kids), visit(t, Head(kids), acc))

\* Mutant of buildFrameSegments: the walk starts at the frame itself.
buildFrameSegmentsFromFrame(t) == flushVector(visit(t, 1, NoSegments)).segments

buildFrameSegments(t) ==
  LET walked == IF HasChildrenProp(t.node[1])
                  THEN VisitEach(t, Children(t, 1), NoSegments)
                  ELSE NoSegments
  IN flushVector(walked).segments

-----------------------------------------------------------------------------
(* Scene mutator: captureNodeState, restoreNodeState, applySegmentState.   *)
(* A snapshot is [visibility, fills, strokes], each a map keyed by node id; *)
(* fills and strokes hold only the nodes whose paints were an array.       *)

captureNodeState(t, nodes) ==
  [visibility |-> [n \in Range(nodes) |-> t.node[n].visible],
   fills      |-> [n \in { m \in Range(nodes) : t.node[m].fills.tag = "paints" }
                     |-> t.node[n].fills],
   strokes    |-> [n \in { m \in Range(nodes) : t.node[m].strokes.tag = "paints" }
                     |-> t.node[n].strokes]]

\* Mutant of RestoreOne: the strokes are not written back.
RestoreOneNoStrokes(nd, n, state) ==
  [nd EXCEPT
     !.visible = IF n \in DOMAIN state.visibility THEN state.visibility[n] ELSE @,
     !.fills   = IF n \in DOMAIN state.fills THEN state.fills[n] ELSE @]

\* The body of restoreNodeState's loop for node n (code.js:513-521).
RestoreOne(nd, n, state) ==
  [nd EXCEPT
     !.visible = IF n \in DOMAIN state.visibility THEN state.visibility[n] ELSE @,
     !.fills   = IF n \in DOMAIN state.fills THEN state.fills[n] ELSE @,
     !.strokes = IF n \in DOMAIN state.strokes THEN state.strokes[n] ELSE @]

restoreNodeState(t, nodes, state) ==
  [t EXCEPT !.node = [n \in 1..t.n |->
     IF n \in Range(nodes) THEN RestoreOne(t.node[n], n, state) ELSE t.node[n]]]

\* showSet of applySegmentState: the segment nodes and their ancestors up to
\* and including the frame (code.js:531-537).
ShowSet(t, frame, segmentNodes) ==
  Range(segmentNodes) \cup
  UNION { Range(getAncestorChain(t, n, frame)) : n \in Range(segmentNodes) }

\* The paints applySegmentState leaves on a node (code.js:543-561): untouched
\* when absent or mixed, the snapshot's when the node is rendered, else empty.
IsolatedPaints(cur, n, inRenderSet, saved) ==
  IF cur.tag # "paints" THEN cur
  ELSE IF inRenderSet THEN (IF n \in DOMAIN saved THEN saved[n] ELSE cur)
  ELSE Paints(<<>>)

\* Mutant of IsolateOne: the snapshot's visibility is not consulted.
IsolateOneShowAll(nd, n, showSet, renderSet, state) ==
  [nd EXCEPT
     !.visible = n \in showSet,
     !.fills   = IsolatedPaints(@, n, n \in renderSet, state.fills),
     !.strokes = IsolatedPaints(@, n, n \in renderSet, state.strokes)]

\* The body of applySegmentState's loop for node n (code.js:539-562).
IsolateOne(nd, n, showSet, renderSet, state) ==
  LET originalVisible ==
        IF n \in DOMAIN state.visibility THEN state.visibility[n] # FALSE ELSE TRUE
  IN [nd EXCEPT
        !.visible = originalVisible /\ n \in showSet,
        !.fills   = IsolatedPaints(@, n, n \in renderSet, state.fills),
        !.strokes = IsolatedPaints(@, n, n \in renderSet, state.strokes)]

applySegmentState(t, frame, nodes, segmentNodes, state) ==
  LET renderSet == Range(segmentNodes)
      showSet == ShowSet(t, frame, segmentNodes)
  IN [t EXCEPT !.node = [n \in 1..t.n |->
        IF n \in Range(nodes)
          THEN IsolateOne(t.node[n], n, showSet, renderSet, state)
          ELSE t.node[n]]]

-----------------------------------------------------------------------------
(* Bounded node trees                                                      *)

NoEffects == <<>>
OnePaint == Paints(<<VisiblePaint>>)
NoPaint  == Paints(<<>>)

\* Roots handed to the functions: a frame with a background, a frame without
\* one, a frame that itself mandates rasterization, and a PAGE pseudo-node
\* (which has none of the layer properties).
RootProfiles ==
  { Node("FRAME", TRUE, NoEffects, "PASS_THROUGH", FALSE, OnePaint, NoPaint),
    Node("FRAME", TRUE, NoEffects, "PASS_THROUGH", FALSE, NoPaint, NoPaint),
    Node("FRAME", TRUE, NoEffects, "MULTIPLY", FALSE, OnePaint, NoPaint),
    Node("PAGE", TRUE, NoEffects, "UNDEFINED", FALSE, Absent, Absent) }

NodeProfiles ==
  { Node("RECTANGLE", TRUE, NoEffects, "NORMAL", FALSE, OnePaint, NoPaint),
    Node("RECTANGLE", FALSE, NoEffects, "NORMAL", FALSE, OnePaint, NoPaint),
    Node("RECTANGLE", TRUE, <<Effect("DROP_SHADOW", TRUE)>>, "NORMAL", FALSE, OnePaint, NoPaint),
    Node("RECTANGLE", TRUE, <<Effect("LAYER_BLUR", TRUE)>>, "NORMAL", FALSE, OnePaint, NoPaint),
    Node("RECTANGLE", FALSE, <<Effect("LAYER_BLUR", TRUE)>>, "NORMAL", FALSE, OnePaint, NoPaint),
    Node("RECTANGLE", TRUE, NoEffects, "MULTIPLY", FALSE, NoPaint, OnePaint),
    Node("RECTANGLE", TRUE, NoEffects, "NORMAL", FALSE, Paints(<<HiddenPaint>>), NoPaint),
    Node("RECTANGLE", TRUE, <<Effect("LAYER_BLUR", FALSE)>>, "NORMAL", TRUE, OnePaint, NoPaint),
    Node("TEXT", TRUE, NoEffects, "NORMAL", FALSE, OnePaint, NoPaint),
    LinkedText,
    Node("GROUP", TRUE, NoEffects, "PASS_THROUGH", FALSE, Absent, Absent),
    Node("GROUP", FALSE, NoEffects, "PASS_THROUGH", FALSE, Absent, Absent),
    Node("GROUP", TRUE, NoEffects, "MULTIPLY", FALSE, Absent, Absent),
    Node("FRAME", TRUE, NoEffects, "PASS_THROUGH", FALSE, OnePaint, NoPaint) }

\* The parent functions of n nodes: every parent is an earlier node.
ParentFns(n) ==
  { p \in [1..n -> 0..(n - 1)] : p[1] = 0 /\ \A i \in 2..n : p[i] \in 1..(i - 1) }

\* Only nodes that can have children have any.
ParentsAreContainers(n, p, r, f) ==
  \A i \in 2..n : HasChildrenProp(IF p[i] = 1 THEN r ELSE f[p[i]])

\* The tree of n nodes with parent function p, root r and the other nodes f.
MakeTree(n, p, r, f) ==
  [n |-> n, parent |-> p, node |-> [i \in 1..n |-> IF i = 1 THEN r ELSE f[i]]]

-----------------------------------------------------------------------------
(* Values of the variables a specification does not use                    *)

NoDecision == [strategy |-> "none", stats |-> [vectorLayers |-> 0, rasterLayers |-> 0, total |-> 0]]
NoTree == [n |-> 0, parent |-> <<>>, node |-> <<>>]
NoState == [visibility |-> <<>>, fills |-> <<>>, strokes |-> <<>>]

CtlIdle ==
  /\ frameData = <<>> /\ connections = <<>> /\ tasks = {} /\ nEvents = 0 /\ outbox = <<>>
PlanIdle ==
  /\ tree = NoTree /\ ppc = "idle" /\ layerAnalysis = NewResults
  /\ decision = NoDecision /\ segments = <<>>
IsoIdle ==
  /\ itree = NoTree /\ ipc = "idle" /\ istate = NoState /\ iorig = <<>>
  /\ isoCount = 0 /\ lastSegment = <<>>
VecIdle == vp = [pc |-> "idle"] /\ req = [pc |-> "idle"]

-----------------------------------------------------------------------------
(* SpecPlan: the classifier, the decision and the planner on every tree    *)

InitPlan ==
  /\ \E n \in 1..MaxNodes :
       \E p \in ParentFns(n), r \in RootProfiles, f \in [2..n -> NodeProfiles] :
         /\ ParentsAreContainers(n, p, r, f)
         /\ tree = MakeTree(n, p, r, f)
  /\ ppc = "input"
  /\ layerAnalysis = NewResults
  /\ decision = NoDecision
  /\ segments = <<>>
  /\ CtlIdle /\ IsoIdle /\ VecIdle

Analyze ==
  /\ ppc = "input"
  /\ layerAnalysis' = analyzeFrameLayers(tree)
  /\ ppc' = "analysed"
  /\ UNCHANGED <<tree, decision, segments, ctlVars, isoVars, vecVars>>

Decide ==
  /\ ppc = "analysed"
  /\ decision' = determineExportStrategy(layerAnalysis)
  /\ ppc' = "decided"
  /\ UNCHANGED <<tree, layerAnalysis, segments, ctlVars, isoVars, vecVars>>

Plan ==
  /\ ppc = "decided"
  /\ segments' = buildFrameSegments(tree)
  /\ ppc' = "planned"
  /\ UNCHANGED <<tree, layerAnalysis, decision, ctlVars, isoVars, vecVars>>

NextPlan == Analyze \/ Decide \/ Plan

SpecPlan == InitPlan /\ [][NextPlan]_vars

-----------------------------------------------------------------------------
(* Claims about the planner and the classifier (SpecPlan)                  *)

RECURSIVE Flatten(_)
Flatten(segs) == IF segs = <<>> THEN <<>> ELSE Head(segs).nodes \o Flatten(Tail(segs))

\* n and every ancestor of n below the root are visible.
RECURSIVE PathVisible(_, _)
PathVisible(t, n) ==
  \/ n = 1
  \/ t.node[n].visible # FALSE /\ PathVisible(t, t.parent[n])

Counted(t) == { n \in 1..t.n : t.node[n].type \notin {"DOCUMENT", "PAGE"} }

\* C6 as stated: the segments, concatenated, hold every node of the frame's
\* subtree that has renderable self content exactly once, and no node is in
\* two segments.
C6_Original ==
  ppc = "planned" =>
    /\ \A n \in 1..tree.n :
         nodeHasRenderableSelf(tree.node[n]) => Occurrences(Flatten(segments), n) = 1
    /\ \A n \in 1..tree.n : Occurrences(Flatten(segments), n) <= 1

\* C6 amended: no node occurs twice in the concatenated segments (so none is
\* in two segments), and every node below the frame that has renderable self
\* content and is not hidden (it and its ancestors below the frame are
\* visible) occurs exactly once.  The frame itself is in no segment.
C6_SegmentsCoverVisible ==
  ppc = "planned" =>
    /\ \A n \in 1..tree.n : Occurrences(Flatten(segments), n) <= 1
    /\ Occurrences(Flatten(segments), 1) = 0
    /\ \A n \in 2..tree.n :
         nodeHasRenderableSelf(tree.node[n]) /\ PathVisible(tree, n)
           => Occurrences(Flatten(segments), n) = 1

\* A planned tree with a renderable node in a segment and a hidden renderable
\* node left out.
C6_Witness ==
  /\ ppc = "planned"
  /\ \E n \in 2..tree.n :
       /\ nodeHasRenderableSelf(tree.node[n]) /\ PathVisible(tree, n)
       /\ Occurrences(Flatten(segments), n) = 1
  /\ \E n \in 2..tree.n :
       /\ nodeHasRenderableSelf(tree.node[n])
       /\ tree.node[n].visible = FALSE
       /\ Occurrences(Flatten(segments), n) = 0

\* C7 as stated: a layer is counted into rasterLayers exactly when
\* nodeNeedsRaster holds of it, into vectorLayers otherwise.
C7_Claim ==
  ppc \in {"analysed", "decided", "planned"} =>
    /\ layerAnalysis.rasterLayers =
         Cardinality({ n \in Counted(tree) : nodeNeedsRaster(tree.node[n]) })
    /\ layerAnalysis.vectorLayers =
         Cardinality({ n \in Counted(tree) : ~nodeNeedsRaster(tree.node[n]) })

\* C9: the decision follows the table: vector -> vector, raster -> png,
\* hybrid with critical effects -> png, hybrid without -> the
\* vector-with-fallback (segmentation) strategy; nothing else.
C9_DecisionTable ==
  ppc \in {"decided", "planned"} =>
    LET fs == layerAnalysis.frameStrategy
        crit == layerAnalysis.hasCriticalEffects
    IN /\ fs \in {"vector", "raster", "hybrid"}
       /\ decision.strategy \in {"vector", "png", "vector-with-fallback"}
       /\ fs = "vector" => decision.strategy = "vector"
       /\ fs = "raster" => decision.strategy = "png"
       /\ fs = "hybrid" /\ crit => decision.strategy = "png"
       /\ fs = "hybrid" /\ ~crit => decision.strategy = "vector-with-fallback"

\* A hybrid frame with a critical effect, decided png.
C9_Witness ==
  /\ ppc = "decided"
  /\ layerAnalysis.frameStrategy = "hybrid"
  /\ layerAnalysis.hasCriticalEffects
  /\ decision.strategy = "png"

\* C10 as stated: vector iff rasterLayers = 0, raster iff vectorLayers = 0,
\* hybrid in every other case, the case of both counts 0 included.
C10_Original ==
  ppc \in {"analysed", "decided", "planned"} =>
    LET r == layerAnalysis.rasterLayers
        v == layerAnalysis.vectorLayers
        fs == layerAnalysis.frameStrategy
    IN /\ fs = "vector" <=> r = 0
       /\ fs = "raster" <=> v = 0
       /\ fs = "hybrid" <=> ((r # 0 /\ v # 0) \/ (r = 0 /\ v = 0))

\* C10 amended: vector iff rasterLayers = 0 (also when both counts are 0),
\* raster iff vectorLayers = 0 and rasterLayers > 0, hybrid iff both are > 0.
C10_StrategyFromCounts ==
  ppc \in {"analysed", "decided", "planned"} =>
    LET r == layerAnalysis.rasterLayers
        v == layerAnalysis.vectorLayers
        fs == layerAnalysis.frameStrategy
    IN /\ r = Cardinality({ n \in Counted(tree) : LayerVerdict(tree.node[n]).needsRaster })
       /\ r + v = Cardinality(Counted(tree))
       /\ fs = "vector" <=> r = 0
       /\ fs = "raster" <=> (v = 0 /\ r > 0)
       /\ fs = "hybrid" <=> (r > 0 /\ v > 0)

\* A PAGE root without layers: both counts are 0 and the strategy is vector.
C10_Witness ==
  /\ ppc = "analysed"
  /\ tree.node[1].type = "PAGE"
  /\ layerAnalysis.rasterLayers = 0
  /\ layerAnalysis.vectorLayers = 0
  /\ layerAnalysis.frameStrategy = "vector"

-----------------------------------------------------------------------------
(* SpecIso: snapshot, any number of isolations, restore                    *)

IsoRootProfiles ==
  { Node("FRAME", TRUE, NoEffects, "PASS_THROUGH", FALSE, OnePaint, NoPaint),
    Node("FRAME", TRUE, NoEffects, "PASS_THROUGH", FALSE, NoPaint, OnePaint) }

IsoNodeProfiles ==
  { Node("RECTANGLE", TRUE, NoEffects, "NORMAL", FALSE, OnePaint, NoPaint),
    Node("RECTANGLE", FALSE, NoEffects, "NORMAL", FALSE, OnePaint, OnePaint),
    Node("RECTANGLE", TRUE, NoEffects, "MULTIPLY", FALSE, Paints(<<HiddenPaint>>), OnePaint),
    Node("TEXT", TRUE, NoEffects, "NORMAL", FALSE, Mixed, NoPaint),
    Node("GROUP", TRUE, NoEffects, "PASS_THROUGH", FALSE, Absent, Absent),
    Node("GROUP", FALSE, NoEffects, "PASS_THROUGH", FALSE, Absent, Absent) }

InitIso ==
  /\ \E n \in 1..MaxIsoNodes :
       \E p \in ParentFns(n), r \in IsoRootProfiles, f \in [2..n -> IsoNodeProfiles] :
         /\ ParentsAreContainers(n, p, r, f)
         /\ itree = MakeTree(n, p, r, f)
  /\ ipc = "fresh"
  /\ istate = NoState
  /\ iorig = <<>>
  /\ isoCount = 0
  /\ lastSegment = <<>>
  /\ CtlIdle /\ PlanIdle /\ VecIdle

\* const nodes = collectAllNodes(frame); const state = captureNodeState(nodes)
Capture ==
  /\ ipc = "fresh"
  /\ istate' = captureNodeState(itree, collectAllNodes(itree))
  /\ iorig' = itree.node
  /\ ipc' = "captured"
  /\ UNCHANGED <<itree, isoCount, lastSegment, ctlVars, planVars, vecVars>>

\* applySegmentState(frame, nodes, segmentNodes, state) for any segment
Isolate ==
  /\ ipc \in {"captured", "isolated"}
  /\ isoCount < MaxIsolate
  /\ \E S \in SUBSET (1..itree.n) :
       /\ itree' = applySegmentState(itree, 1, collectAllNodes(itree), SortedSeq(S), istate)
       /\ lastSegment' = SortedSeq(S)
  /\ isoCount' = isoCount + 1
  /\ ipc' = "isolated"
  /\ UNCHANGED <<istate, iorig, ctlVars, planVars, vecVars>>

\* restoreNodeState(nodes, state)
Restore ==
  /\ ipc \in {"captured", "isolated"}
  /\ itree' = restoreNodeState(itree, collectAllNodes(itree), istate)
  /\ ipc' = "restored"
  /\ UNCHANGED <<istate, iorig, isoCount, lastSegment, ctlVars, planVars, vecVars>>

NextIso == Capture \/ Isolate \/ Restore

SpecIso == InitIso /\ [][NextIso]_vars

\* C4: after snapshot, any number of isolations and restore, every node's
\* visible flag, fills and strokes are what they were at the snapshot.
C4_RestoreAfterIsolate ==
  ipc = "restored" =>
    \A n \in 1..itree.n :
      /\ itree.node[n].visible = iorig[n].visible
      /\ itree.node[n].fills = iorig[n].fills
      /\ itree.node[n].strokes = iorig[n].strokes

\* Restored after two isolations, the last one of a segment that left out a
\* node with a visible stroke and a visible node, in a tree that also holds a
\* node with mixed fills.
C4_Witness ==
  /\ ipc = "restored"
  /\ isoCount >= 2
  /\ lastSegment # <<>>
  /\ \E n \in 1..itree.n :
       /\ n \notin Range(lastSegment)
       /\ iorig[n].visible
       /\ hasVisiblePaints(iorig[n].strokes)
  /\ \E n \in 1..itree.n : iorig[n].fills.tag = "mixed"

-----------------------------------------------------------------------------
(* Spec: the controller.  An async handler runs from the event that starts *)
(* it, or from the return of the host call it awaits, to its next await of *)
(* a host call (figma.getNodeByIdAsync, exportAsync) or to its end; other  *)
(* events are handled while it is suspended.  tasks holds the suspended    *)
(* handlers; each one has exactly one host call outstanding.               *)

MaxEvents == 2       \* inbound events (selection changes and UI messages) delivered

\* The frames of the document the user can select.
DocFrames == {1, 2}

Internal(dest) == [kind |-> "internal", dest |-> dest]
External == [kind |-> "external", dest |-> 0]

\* What scanNodeForConnections meets in frame f, in the pre-order of its
\* walk: links to a node (reaction or hyperlink of type NODE: the destination
\* is looked up, an await) and links to a URL (pushed at once).
ScanItems(f) ==
  IF f = 1 THEN <<Internal(2), External>> ELSE <<External, Internal(1)>>

\* const newFrame = { id, name, width, height, parent }
NewFrame(f) ==
  [id |-> f, name |-> <<"Frame", f>>, width |-> 800, height |-> 600,
   parent |-> "Page"]

InternalConnection(frameId, dest) ==
  [fromFrameId |-> frameId, type |-> "internal", toFrameId |-> dest]
ExternalConnection(frameId) ==
  [fromFrameId |-> frameId, type |-> "external", toFrameId |-> 0]

\* Mutant of ExistingFrame: only the latest entry is compared.
ExistingFrameLastOnly(fd, f) == fd # <<>> /\ fd[Len(fd)].id = f

\* frameData.find(f => f.id === frame.id)
ExistingFrame(fd, f) == \E k \in DOMAIN fd : fd[k].id = f

FrameIds(fd) == [k \in DOMAIN fd |-> fd[k].id]

\* The sequences without repetition over a set (a selection, a list of ids).
RECURSIVE SeqsOver(_)
SeqsOver(S) ==
  {<<>>} \cup UNION { { <<x>> \o q : q \in SeqsOver(S \ {x}) } : x \in S }

Task(id, kind, list, ids, i, j, at, acc) ==
  [id |-> id, kind |-> kind, list |-> list, ids |-> ids, i |-> i, j |-> j,
   at |-> at, acc |-> acc]

\* ---- selection change: autoAddSelectedFrames and scanNodeForConnections

FramesUpdated(fd, conns, added) ==
  [type |-> "frames-updated", frames |-> FrameIds(fd), connections |-> conns,
   justAdded |-> added]
SelectionChanged(sel) == [type |-> "selection-changed", selectedFrameIds |-> sel]

\* The selection handler from frame i of the selection, item j of its scan
\* (j = 0: at the head of the loop), to its next lookup or its end.
\* st = [fd, conns, out, sel, i, j, added, suspended].
RECURSIVE RunSelection(_)
RunSelection(st) ==
  IF st.i > Len(st.sel)
    THEN [st EXCEPT !.out = @ \o <<FramesUpdated(st.fd, st.conns, st.added),
                                    SelectionChanged(st.sel)>>]
  ELSE LET f == st.sel[st.i] IN
    IF st.j = 0
      THEN IF ExistingFrame(st.fd, f)
             THEN RunSelection([st EXCEPT !.i = @ + 1])
             ELSE RunSelection([st EXCEPT !.fd = Append(@, NewFrame(f)), !.j = 1])
    ELSE IF st.j > Len(ScanItems(f))
      THEN RunSelection([st EXCEPT !.added = Append(@, f), !.i = @ + 1, !.j = 0])
    ELSE IF ScanItems(f)[st.j].kind = "external"
      THEN RunSelection([st EXCEPT !.conns = Append(@, ExternalConnection(f)), !.j = @ + 1])
    ELSE [st EXCEPT !.suspended = TRUE]

SelState(fd, conns, out, sel, i, j, added) ==
  [fd |-> fd, conns |-> conns, out |-> out, sel |-> sel, i |-> i, j |-> j,
   added |-> added, suspended |-> FALSE]

\* The effect of a run of the selection handler on the controller's state.
SelectionEffect(r, id, rest) ==
  /\ frameData' = r.fd
  /\ connections' = r.conns
  /\ outbox' = r.out
  /\ tasks' = IF r.suspended
                THEN rest \cup {Task(id, "sel", r.sel, <<>>, r.i, r.j, "lookup", r.added)}
                ELSE rest

\* figma.on('selectionchange'): the selected frames, in selection order.
SelectionChange ==
  /\ nEvents < MaxEvents
  /\ \E sel \in SeqsOver(DocFrames) :
       IF sel = <<>>
         THEN /\ outbox' = Append(outbox, SelectionChanged(sel))
              /\ UNCHANGED <<frameData, connections, tasks>>
         ELSE SelectionEffect(
                RunSelection(SelState(frameData, connections, outbox, sel, 1, 0, <<>>)),
                nEvents + 1, tasks)
  /\ nEvents' = nEvents + 1
  /\ UNCHANGED <<planVars, isoVars, vecVars>>

\* The lookup awaited by a scan returns: the destination is a FRAME or not.
ScanLookupReturn ==
  /\ \E t \in tasks, found \in BOOLEAN :
       /\ t.kind = "sel"
       /\ LET f == t.list[t.i]
              conns == IF found
                         THEN Append(connections, InternalConnection(f, ScanItems(f)[t.j].dest))
                         ELSE connections
          IN SelectionEffect(
               RunSelection(SelState(frameData, conns, outbox, t.list, t.i, t.j + 1, t.acc)),
               t.id, tasks \ {t})
  /\ UNCHANGED <<nEvents, planVars, isoVars, vecVars>>

\* ---- clear-list: clearFrameList

\* Mutant of ClearList: the connection list is left as it is.
ClearListFramesOnly ==
  /\ nEvents < MaxEvents
  /\ frameData' = <<>>
  /\ outbox' = Append(outbox, FramesUpdated(<<>>, connections, <<>>))
  /\ nEvents' = nEvents + 1
  /\ UNCHANGED <<connections, tasks, planVars, isoVars, vecVars>>

ClearList ==
  /\ nEvents < MaxEvents
  /\ frameData' = <<>>
  /\ connections' = <<>>
  /\ outbox' = Append(outbox, FramesUpdated(<<>>, <<>>, <<>>))
  /\ nEvents' = nEvents + 1
  /\ UNCHANGED <<tasks, planVars, isoVars, vecVars>>

\* ---- export-batch: the onmessage branch and performExport

\* batch.frameIds.map(id => batchFrames.find(f => f.id === id)).filter(Boolean)
OrderedFrames(fd, ids) ==
  SelectSeq(ids, LAMBDA id : ExistingFrame(fd, id))

\* connections.filter(...) of performExport (code.js:1508-1510)
RelevantConnections(conns, selectedFrameIds) ==
  SelectSeq(conns, LAMBDA c :
    /\ c.fromFrameId \in Range(selectedFrameIds)
    /\ (c.type = "external" \/ c.toFrameId \in Range(selectedFrameIds)))

GeneratePdf(images, conns, frameOrder) ==
  [type |-> "generate-pdf", frames |-> images, connections |-> conns,
   frameOrder |-> frameOrder]

\* performExport at the head of its loop for frame i: the lookup of the next
\* frame is awaited, or the loop is over and generate-pdf is posted.
BatchEffect(id, frames, ids, i, images, rest) ==
  IF i > Len(frames)
    THEN /\ outbox' = Append(outbox,
                        GeneratePdf(images, RelevantConnections(connections, ids), ids))
         /\ tasks' = rest
    ELSE /\ tasks' = rest \cup {Task(id, "batch", frames, ids, i, 0, "lookup", images)}
         /\ outbox' = outbox

ExportBatch ==
  /\ nEvents < MaxEvents
  /\ \E ids \in SeqsOver(DocFrames) \ {<<>>} :
       BatchEffect(nEvents + 1, OrderedFrames(frameData, ids), ids, 1, <<>>, tasks)
  /\ nEvents' = nEvents + 1
  /\ UNCHANGED <<frameData, connections, planVars, isoVars, vecVars>>

\* figma.getNodeByIdAsync(frameInfo.id) returns in performExport: a FRAME is
\* exported (the next await), anything else is passed over.
BatchLookupReturn ==
  /\ \E t \in tasks, found \in BOOLEAN :
       /\ t.kind = "batch" /\ t.at = "lookup"
       /\ IF found
            THEN /\ tasks' = (tasks \ {t}) \cup {[t EXCEPT !.at = "export"]}
                 /\ outbox' = outbox
            ELSE BatchEffect(t.id, t.list, t.ids, t.i + 1, t.acc, tasks \ {t})
  /\ UNCHANGED <<frameData, connections, nEvents, planVars, isoVars, vecVars>>

\* frame.exportAsync returns in performExport: the image is kept, or the
\* call throws, which nothing catches on this path: the handler ends.
BatchExportReturn ==
  /\ \E t \in tasks, ok \in BOOLEAN :
       /\ t.kind = "batch" /\ t.at = "export"
       /\ IF ok
            THEN BatchEffect(t.id, t.list, t.ids, t.i + 1, Append(t.acc, t.list[t.i]),
                             tasks \ {t})
            ELSE /\ tasks' = tasks \ {t}
                 /\ outbox' = outbox
  /\ UNCHANGED <<frameData, connections, nEvents, planVars, isoVars, vecVars>>

\* ---- request-png-fallback: handlePngFallbackRequest

FrameIndexes == {0, 1}

\* Mutant of PngFallbackResult: the result does not carry the frameIndex
\* of its request.
PngFallbackResultNoIndex(frameId, frameIndex, success, pngData, error) ==
  [type |-> "png-fallback-result", frameId |-> frameId, frameIndex |-> 0,
   success |-> success, pngData |-> pngData, error |-> error]

\* The png-fallback-result messages of handlePngFallbackRequest; pngData
\* and error are "" when the message has no such field.
PngFallbackResult(frameId, frameIndex, success, pngData, error) ==
  [type |-> "png-fallback-result", frameId |-> frameId, frameIndex |-> frameIndex,
   success |-> success, pngData |-> pngData, error |-> error]

PngFallbackRequest ==
  /\ nEvents < MaxEvents
  /\ \E f \in DocFrames, frameIndex \in FrameIndexes :
       tasks' = tasks \cup
         {Task(nEvents + 1, "fallback", <<f>>, <<frameIndex>>, 1, 0, "lookup", <<>>)}
  /\ nEvents' = nEvents + 1
  /\ UNCHANGED <<frameData, connections, outbox, planVars, isoVars, vecVars>>

FallbackLookupReturn ==
  /\ \E t \in tasks, found \in BOOLEAN :
       /\ t.kind = "fallback" /\ t.at = "lookup"
       /\ IF found
            THEN /\ tasks' = (tasks \ {t}) \cup {[t EXCEPT !.at = "export"]}
                 /\ outbox' = outbox
            ELSE /\ tasks' = tasks \ {t}
                 /\ outbox' = Append(outbox, PngFallbackResult(t.list[1], t.ids[1], FALSE, "",
                                                               "Frame not found"))
  /\ UNCHANGED <<frameData, connections, nEvents, planVars, isoVars, vecVars>>

FallbackExportReturn ==
  /\ \E t \in tasks, ok \in BOOLEAN :
       /\ t.kind = "fallback" /\ t.at = "export"
       /\ tasks' = tasks \ {t}
       /\ outbox' = Append(outbox,
            IF ok THEN PngFallbackResult(t.list[1], t.ids[1], TRUE, "pngData", "")
                  ELSE PngFallbackResult(t.list[1], t.ids[1], FALSE, "", "error.message"))
  /\ UNCHANGED <<frameData, connections, nEvents, planVars, isoVars, vecVars>>

Init ==
  /\ frameData = <<>>
  /\ connections = <<>>
  /\ tasks = {}
  /\ nEvents = 0
  /\ outbox = <<[type |-> "plugin-ready"]>>
  /\ PlanIdle /\ IsoIdle /\ VecIdle

Next ==
  \/ SelectionChange
  \/ ScanLookupReturn
  \/ ClearList
  \/ ExportBatch
  \/ BatchLookupReturn
  \/ BatchExportReturn
  \/ PngFallbackRequest
  \/ FallbackLookupReturn
  \/ FallbackExportReturn

Spec == Init /\ [][Next]_vars

\* The controller when every host call returns: a lookup or an export call
\* that a handler awaits returns or throws in the end.
SpecLive ==
  /\ Init /\ [][Next]_vars
  /\ WF_vars(ScanLookupReturn)
  /\ WF_vars(BatchLookupReturn) /\ WF_vars(BatchExportReturn)
  /\ WF_vars(FallbackLookupReturn) /\ WF_vars(FallbackExportReturn)

-----------------------------------------------------------------------------
(* Claims about the controller (Spec)                                      *)

\* C1 as stated: every connection's fromFrameId is the id of a frame in the
\* tracked frame list, in every reachable state.
C1_Claim ==
  \A k \in DOMAIN connections : ExistingFrame(frameData, connections[k].fromFrameId)

\* C2 as stated: at most one export or lookup call is outstanding at any
\* time (every suspended handler has exactly one outstanding).
C2_Claim == Cardinality(tasks) <= 1

\* C3: the tracked frame list never holds two entries with the same id.
C3_NoDuplicateFrames ==
  \A k, m \in DOMAIN frameData : frameData[k].id = frameData[m].id => k = m

\* A selection event was handled while an earlier one was still scanning:
\* the earlier handler is suspended in the scan of frame f, the later one has
\* passed f in its own selection, and two frames are tracked.
C3_Witness ==
  /\ Len(frameData) >= 2
  /\ \E t1, t2 \in tasks :
       /\ t1.kind = "sel" /\ t2.kind = "sel" /\ t1.id < t2.id
       /\ \E k \in 1..(t2.i - 1) : t2.list[k] = t1.list[t1.i]

-----------------------------------------------------------------------------
(* SpecVec: one pass of performVectorExport.  The pass is an async         *)
(* function; it is suspended at figma.getNodeByIdAsync (phase 1) and at     *)
(* frame.exportAsync (phase 2), and runs atomically in between.  vp holds   *)
(* the locals of the pass, the frames' nodes (doc) and a log of what the    *)
(* pass did to each frame.  A buffer is modelled by its byte length and     *)
(* what validatePDFData reads of its contents; NoData is a field not set.   *)

MaxPassFrames == 2        \* frames handed to one pass
PngBytes == 12582912      \* length of every PNG buffer the host returns
PdfBytes == 1024          \* length of a well-formed PDF buffer the host returns
ShortPdfBytes == 50       \* length of a truncated PDF buffer the host returns
MAX_CHUNK_BYTES == 20971520

\* ---- buffers and the output validator (code.js:791-867)

\* A byte buffer: its length, its first five bytes as characters, whether its
\* last 100 bytes hold the end marker, whether its first 2000 bytes hold an
\* object / the text "undefined" or "NaN", and whether its middle sample is
\* highly repetitive.
Buffer(length, header, eof, obj, artifacts, repetitive) ==
  [length |-> length, header |-> header, eof |-> eof, obj |-> obj,
   artifacts |-> artifacts, repetitive |-> repetitive]

NoData == Buffer(0, <<>>, FALSE, FALSE, FALSE, FALSE)

PdfHeader == <<"%", "P", "D", "F", "-">>
PngHeader == <<"0x89", "P", "N", "G", "0x0D">>

GoodPdf == Buffer(PdfBytes, PdfHeader, TRUE, TRUE, FALSE, FALSE)
ShortPdf == Buffer(ShortPdfBytes, PdfHeader, FALSE, TRUE, FALSE, FALSE)
PngBuffer == Buffer(PngBytes, PngHeader, FALSE, FALSE, FALSE, TRUE)

ValidationResult(isValid, errors, warnings) ==
  [isValid |-> isValid, errors |-> errors, warnings |-> warnings]

\* Mutant of validatePDFData: a buffer without objects is invalid.
validatePDFDataStrict(pdfData) ==
  IF pdfData = NoData \/ pdfData.length < 100
    THEN ValidationResult(FALSE, <<"PDF too small">>, <<>>)
  ELSE ValidationResult(SubSeq(pdfData.header, 1, 4) = <<"%", "P", "D", "F">>
                          /\ ~pdfData.artifacts /\ pdfData.obj, <<>>, <<>>)

validatePDFData(pdfData) ==
  IF pdfData = NoData \/ pdfData.length < 100
    THEN ValidationResult(FALSE, <<"PDF too small">>, <<>>)
  ELSE IF SubSeq(pdfData.header, 1, 4) # <<"%", "P", "D", "F">>
    THEN ValidationResult(FALSE, <<"Invalid PDF header">>, <<>>)
  ELSE
    ValidationResult(~pdfData.artifacts,
      IF pdfData.artifacts THEN <<"PDF contains JavaScript error artifacts">> ELSE <<>>,
      (IF ~pdfData.eof THEN <<"Missing %%EOF marker">> ELSE <<>>)
      \o (IF ~pdfData.obj THEN <<"No PDF objects found in header">> ELSE <<>>)
      \o (IF pdfData.repetitive THEN <<"PDF contains highly repetitive data">> ELSE <<>>))

\* What a frame.exportAsync call can do: throw, or return a buffer (for a PDF
\* a well-formed or a truncated one).
ExportOutcomes(format) ==
  {[ok |-> FALSE, data |-> NoData]}
  \cup {[ok |-> TRUE, data |-> b] :
          b \in IF format = "PDF" THEN {GoodPdf, ShortPdf} ELSE {PngBuffer}}

PlainRect == Node("RECTANGLE", TRUE, NoEffects, "NORMAL", FALSE, OnePaint, NoPaint)
BlendRect == Node("RECTANGLE", TRUE, NoEffects, "MULTIPLY", FALSE, OnePaint, NoPaint)
BlurRect == Node("RECTANGLE", TRUE, <<Effect("LAYER_BLUR", TRUE)>>, "NORMAL", FALSE, OnePaint, NoPaint)
HiddenBlurRect == Node("RECTANGLE", FALSE, <<Effect("LAYER_BLUR", TRUE)>>, "NORMAL", FALSE, OnePaint, NoPaint)
FilledFrame == Node("FRAME", TRUE, NoEffects, "PASS_THROUGH", FALSE, OnePaint, NoPaint)
BareFrame == Node("FRAME", TRUE, NoEffects, "PASS_THROUGH", FALSE, NoPaint, NoPaint)
BlendFrame == Node("FRAME", TRUE, NoEffects, "MULTIPLY", FALSE, OnePaint, NoPaint)

\* A frame whose children are the given leaves, in order.
FlatFrame(r, kids) ==
  MakeTree(1 + Len(kids), [i \in 1..(1 + Len(kids)) |-> IF i = 1 THEN 0 ELSE 1],
           r, [i \in 2..(1 + Len(kids)) |-> kids[i - 1]])

\* The frames figma.getNodeByIdAsync can return in a pass: all vector; the
\* frame itself rasterized and nothing else; a blend-mode layer next to a
\* vector layer, with a frame background; a blurred layer next to a vector
\* layer, without one; a hidden blurred layer next to a vector layer; two
\* blend-mode layers on a frame background.
VecCatalogue ==
  << FlatFrame(FilledFrame, <<PlainRect>>),
     FlatFrame(BlendFrame, <<>>),
     FlatFrame(FilledFrame, <<BlendRect, PlainRect>>),
     FlatFrame(BareFrame, <<PlainRect, BlurRect>>),
     FlatFrame(FilledFrame, <<HiddenBlurRect, PlainRect>>),
     FlatFrame(FilledFrame, <<BlendRect, BlendRect>>) >>

\* The connection lists a pass can find in the module-level connections.
VecConnections ==
  { <<>>,
    <<InternalConnection(1, 2), ExternalConnection(1), InternalConnection(2, 1)>> }

FrameInfo(f) == [id |-> f, name |-> <<"Frame", f>>, width |-> 800, height |-> 600]

NoStats == [vectorLayers |-> 0, rasterLayers |-> 0, total |-> 0]
NoCall == [format |-> "none", role |-> "none", seg |-> 0]

\* error.message of the error a failed frame.exportAsync call throws.
ExportError(format) == IF format = "PDF" THEN "PDF export error" ELSE "PNG export error"

\* ---- the entries of exportResults
Result(fi, pdf, png, isPng, segs, skipped, err, reason, stats) ==
  [id |-> fi.id, name |-> fi.name, width |-> fi.width, height |-> fi.height,
   pdfData |-> pdf, pngData |-> png, isPng |-> isPng, segments |-> segs,
   hasSegments |-> segs # <<>>, skipped |-> skipped, error |-> err,
   reason |-> reason, layerStats |-> stats]

\* error and reason are the pieces of the template literal that builds them,
\* <<>> when the field is not set.
SkippedResult(fi, err) == Result(fi, NoData, NoData, FALSE, <<>>, TRUE, err, <<>>, NoStats)
PdfResult(fi, pdf, stats) == Result(fi, pdf, NoData, FALSE, <<>>, FALSE, <<>>, <<>>, stats)
PngResult(fi, png, reason, stats) == Result(fi, NoData, png, TRUE, <<>>, FALSE, <<>>, reason, stats)
SegmentsResult(fi, segs, stats) == Result(fi, NoData, NoData, FALSE, segs, FALSE, <<>>, <<>>, stats)

VectorSegment(pdf, reason) == [type |-> "vector", pdfData |-> pdf, pngData |-> NoData, reason |-> reason]
PngSegment(png) == [type |-> "png", pdfData |-> NoData, pngData |-> png, reason |-> ""]

\* ---- the log
Event(op, f, format, role, seg, ok) ==
  [op |-> op, frame |-> f, format |-> format, role |-> role, seg |-> seg, ok |-> ok]

VecPost(v, m) == [v EXCEPT !.out = Append(@, m)]
VecLog(v, op) == [v EXCEPT !.log = Append(@, Event(op, v.i, "", "", 0, TRUE))]
\* Mutant of PushResult: the result is pushed twice.
PushResultTwice(v, r) == [v EXCEPT !.exportResults = @ \o <<r, r>>]

PushResult(v, r) == [v EXCEPT !.exportResults = Append(@, r)]

VectorExportProgress(current, total, phase, strategy) ==
  [type |-> "vector-export-progress", current |-> current, total |-> total,
   phase |-> phase, strategy |-> strategy]

\* ---- the summary and the hand-off (code.js:1293-1428)
getByteLength(value) == IF value = NoData THEN 0 ELSE value.length

estimateExportBytes(r) ==
  getByteLength(r.pdfData) + getByteLength(r.pngData)
  + SeqSum([k \in DOMAIN r.segments |->
              getByteLength(r.segments[k].pdfData) + getByteLength(r.segments[k].pngData)])

\* Mutant of ExportChunks: the results are never split.
ExportChunksWhole(rs, chunks, currentChunk, currentBytes) ==
  IF rs = <<>> THEN chunks ELSE <<rs>>

RECURSIVE ExportChunks(_, _, _, _)
ExportChunks(rs, chunks, currentChunk, currentBytes) ==
  IF rs = <<>>
    THEN (IF Len(currentChunk) > 0 THEN Append(chunks, currentChunk) ELSE chunks)
  ELSE LET size == estimateExportBytes(Head(rs)) IN
    IF Len(currentChunk) > 0 /\ currentBytes + size > MAX_CHUNK_BYTES
      THEN ExportChunks(Tail(rs), Append(chunks, currentChunk), <<Head(rs)>>, size)
      ELSE ExportChunks(Tail(rs), chunks, Append(currentChunk, Head(rs)), currentBytes + size)

CountSegments(results, type) ==
  SeqSum([k \in DOMAIN results |->
     Len(SelectSeq(results[k].segments, LAMBDA s : s.type = type))])

\* The counters of phase 2: the layers of the frames that were not skipped.
TotalLayers(fa, field) ==
  SeqSum([k \in DOMAIN fa |-> IF fa[k].strategy = "skip" THEN 0 ELSE fa[k].stats[field]])

Summary(v) ==
  [total |-> v.total,
   vector |-> Len(SelectSeq(v.exportResults, LAMBDA r : r.pdfData # NoData /\ ~r.isPng)),
   png |-> Len(SelectSeq(v.exportResults, LAMBDA r : r.isPng)),
   vectorSegments |-> CountSegments(v.exportResults, "vector"),
   rasterSegments |-> CountSegments(v.exportResults, "png"),
   failed |-> Len(SelectSeq(v.exportResults, LAMBDA r : r.skipped)),
   vectorLayers |-> TotalLayers(v.frameAnalysis, "vectorLayers"),
   rasterLayers |-> TotalLayers(v.frameAnalysis, "rasterLayers")]

VecRelevantConnections(conns, exportedFrameIds) ==
  SelectSeq(conns, LAMBDA c :
    /\ c.fromFrameId \in Range(exportedFrameIds)
    /\ (c.type = "external" \/ c.toFrameId \in Range(exportedFrameIds)))

\* Mutant of HandOff: the chunked protocol without its closing message.
HandOffNoEnd(v, conns) ==
  LET successfulExports == SelectSeq(v.exportResults, LAMBDA r : ~r.skipped)
      exportChunks == ExportChunks(successfulExports, <<>>, <<>>, 0)
  IN IF Len(successfulExports) = 0
       THEN <<[type |-> "error"]>>
     ELSE <<[type |-> "merge-vector-pdfs-start", totalChunks |-> Len(exportChunks)]>>
          \o [k \in DOMAIN exportChunks |->
                [type |-> "merge-vector-pdfs-chunk", chunkIndex |-> k,
                 totalChunks |-> Len(exportChunks), pdfBuffers |-> exportChunks[k]]]

HandOff(v, conns) ==
  LET successfulExports == SelectSeq(v.exportResults, LAMBDA r : ~r.skipped)
      failedExports == SelectSeq(v.exportResults, LAMBDA r : r.skipped)
      exportedFrameIds == [k \in DOMAIN successfulExports |-> successfulExports[k].id]
      relevantConnections == VecRelevantConnections(conns, exportedFrameIds)
      frameOrder == [k \in 1..v.total |-> k]
      exportChunks == ExportChunks(successfulExports, <<>>, <<>>, 0)
  IN IF Len(successfulExports) = 0
       THEN <<[type |-> "error"]>>
     ELSE IF Len(exportChunks) <= 1
       THEN <<[type |-> "merge-vector-pdfs", pdfBuffers |-> successfulExports,
               connections |-> relevantConnections, frameOrder |-> frameOrder,
               failedFrames |-> failedExports, summary |-> Summary(v)]>>
     ELSE <<[type |-> "merge-vector-pdfs-start", totalChunks |-> Len(exportChunks),
             totalBuffers |-> Len(successfulExports),
             connections |-> relevantConnections, frameOrder |-> frameOrder,
             failedFrames |-> failedExports, summary |-> Summary(v)]>>
          \o [k \in DOMAIN exportChunks |->
                [type |-> "merge-vector-pdfs-chunk", chunkIndex |-> k,
                 totalChunks |-> Len(exportChunks), pdfBuffers |-> exportChunks[k]]]
          \o <<[type |-> "merge-vector-pdfs-end"]>>

Finish(v, conns) == [v EXCEPT !.pc = "done", !.out = @ \o HandOff(v, conns)]

\* ---- phase 2 (code.js:1054-1290)
AwaitExport(v, format, role, seg) ==
  [v EXCEPT !.pc = "export", !.call = [format |-> format, role |-> role, seg |-> seg]]

\* applySegmentState on the frame being exported.
IsolateSegment(v, segmentNodes) ==
  VecLog([v EXCEPT !.doc[v.i] = applySegmentState(@, 1, v.nodes, segmentNodes, v.state)],
         "isolate")

\* The finally block of the segmented export (code.js:1234-1236).
RestoreFrame(v) ==
  VecLog([v EXCEPT !.doc[v.i] = restoreNodeState(@, v.nodes, v.state)], "restore")

\* The end of an iteration of the phase-2 loop: the block-scoped locals go.
NextFrame(v) ==
  [v EXCEPT !.i = @ + 1, !.call = NoCall, !.segs = <<>>, !.nodes = <<>>,
            !.state = NoState, !.segmentExports = <<>>, !.error = ""]

hasFrameBackground(nd) ==
  \/ nd.fills.tag # "absent" /\ hasVisiblePaints(nd.fills)
  \/ nd.strokes.tag # "absent" /\ hasVisiblePaints(nd.strokes)

\* Mutant of SegmentFailure: the nodes are not restored after a failure.
SegmentFailureNoRestore(v) ==
  NextFrame(PushResult(v,
    SkippedResult(v.frameAnalysis[v.i].frameInfo,
                  <<"Layered export failed: ", ExportError(v.call.format)>>)))

\* An export call of the segmented export threw: the catch block pushes one
\* failed result, the finally block restores the nodes (code.js:1224-1236).
SegmentFailure(v) ==
  NextFrame(RestoreFrame(PushResult(v,
    SkippedResult(v.frameAnalysis[v.i].frameInfo,
                  <<"Layered export failed: ", ExportError(v.call.format)>>))))

\* The segmented export has exported every segment (code.js:1216-1223, 1235).
SegmentsDone(v) ==
  NextFrame(RestoreFrame(PushResult(v,
    SegmentsResult(v.frameAnalysis[v.i].frameInfo, v.segmentExports,
                   v.frameAnalysis[v.i].stats))))

RECURSIVE ExportFrames(_, _)
RECURSIVE StartSegment(_, _, _)

\* Mutant of StartSegment: the segments are exported last to first.
StartSegmentBackwards(v, s, conns) ==
  IF s > Len(v.segs) THEN ExportFrames(SegmentsDone(v), conns)
  ELSE LET q == Len(v.segs) + 1 - s
       IN AwaitExport(IsolateSegment(v, v.segs[q].nodes),
                      IF v.segs[q].type = "raster" THEN "PNG" ELSE "PDF", "seg", q)

\* The head of the phase-2 loop at frame v.i: runs to the next export call,
\* or to the end of the pass.
ExportFrames(v, conns) ==
  IF v.i > Len(v.frameAnalysis) THEN Finish(v, conns)
  ELSE LET a == v.frameAnalysis[v.i] IN
    IF a.strategy = "skip"
      THEN ExportFrames(NextFrame(PushResult(v, SkippedResult(a.frameInfo, <<a.reason>>))), conns)
    ELSE
      LET v1 == VecPost(v, VectorExportProgress(v.i, v.total, "export", a.strategy))
          frame == v.doc[v.i]
      IN IF a.layerAnalysis.rasterLayers > 0
           THEN IF a.layerAnalysis.vectorLayers = 0
                  THEN AwaitExport(v1, "PNG", "all-raster", 0)
                ELSE
                  LET segs == buildFrameSegments(frame)
                      v2 == VecLog(v1, "plan")
                  IN IF ~ \E k \in DOMAIN segs : segs[k].type = "raster"
                       THEN AwaitExport(v2, "PDF", "whole", 0)
                     ELSE
                       LET nodes == collectAllNodes(frame)
                           v3 == [v2 EXCEPT !.segs = segs, !.nodes = nodes,
                                            !.state = captureNodeState(frame, nodes),
                                            !.segmentExports = <<>>]
                       IN IF hasFrameBackground(frame.node[1])
                            THEN AwaitExport(IsolateSegment(v3, <<1>>), "PDF", "bg", 0)
                            ELSE StartSegment(v3, 1, conns)
         ELSE AwaitExport(v1, "PDF", "whole", 0)

\* The head of the segment loop at segment s (code.js:1192-1214).
StartSegment(v, s, conns) ==
  IF s > Len(v.segs) THEN ExportFrames(SegmentsDone(v), conns)
  ELSE AwaitExport(IsolateSegment(v, v.segs[s].nodes),
                   IF v.segs[s].type = "raster" THEN "PNG" ELSE "PDF", "seg", s)

\* frame.exportAsync returned a buffer or threw, for the call the pass awaits.
ExportReturned(v0, outcome, conns) ==
  LET c == v0.call
      ok == outcome.ok
      v == [v0 EXCEPT !.log = Append(@, Event("export", v0.i, c.format, c.role, c.seg, ok))]
      a == v.frameAnalysis[v.i]
      fi == a.frameInfo
  IN CASE c.role = "all-raster" ->
            ExportFrames(NextFrame(PushResult(v,
              IF ok THEN PngResult(fi, outcome.data, <<"All layers rasterized">>, a.stats)
                    ELSE SkippedResult(fi, <<ExportError(c.format)>>))), conns)
       [] c.role = "whole" ->
            IF ok THEN ExportFrames(NextFrame(PushResult(v, PdfResult(fi, outcome.data, a.stats))), conns)
                  ELSE AwaitExport([v EXCEPT !.error = ExportError(c.format)],
                                   "PNG", "fallback", 0)
       [] c.role = "fallback" ->
            ExportFrames(NextFrame(PushResult(v,
              IF ok THEN PngResult(fi, outcome.data, <<"PDF export failed: ", v.error>>, a.stats)
                    ELSE SkippedResult(fi, <<"Both PDF and PNG failed: ", v.error>>))), conns)
       [] c.role = "bg" ->
            IF ok THEN StartSegment([v EXCEPT !.segmentExports =
                                        Append(@, VectorSegment(outcome.data, "frame background"))], 1, conns)
                  ELSE ExportFrames(SegmentFailure(v), conns)
       [] c.role = "seg" ->
            IF ok THEN StartSegment([v EXCEPT !.segmentExports =
                                        Append(@, IF v.segs[c.seg].type = "raster"
                                                    THEN PngSegment(outcome.data)
                                                    ELSE VectorSegment(outcome.data, ""))],
                                    c.seg + 1, conns)
                  ELSE ExportFrames(SegmentFailure(v), conns)

\* ---- phase 1 (code.js:1007-1046)
SkipAnalysis(fi) ==
  [frameInfo |-> fi, strategy |-> "skip", reason |-> "Frame not found or invalid type",
   layerAnalysis |-> NewResults, stats |-> NoStats]

FrameAnalysis(fi, t) ==
  LET la == analyzeFrameLayers(t)
      d == determineExportStrategy(la)
  IN [frameInfo |-> fi, strategy |-> d.strategy, reason |-> d.strategy,
      layerAnalysis |-> la, stats |-> d.stats]

\* figma.getNodeByIdAsync returned for frame v.i: kind 0 is "no such node or
\* not a FRAME", any other kind is a frame of the catalogue.
\* Mutant of LookupReturned: phase 2 starts after the first analysis.
LookupReturnedEager(v, kind, conns) ==
  LET fi == FrameInfo(v.i)
      v1 == IF kind = 0
              THEN [v EXCEPT !.frameAnalysis = Append(@, SkipAnalysis(fi)),
                             !.doc = Append(@, NoTree), !.orig = Append(@, NoTree)]
              ELSE [v EXCEPT !.frameAnalysis = Append(@, FrameAnalysis(fi, VecCatalogue[kind])),
                             !.doc = Append(@, VecCatalogue[kind]),
                             !.orig = Append(@, VecCatalogue[kind])]
  IN ExportFrames([v1 EXCEPT !.i = 1], conns)

LookupReturned(v, kind, conns) ==
  LET fi == FrameInfo(v.i)
      v1 == IF kind = 0
              THEN [v EXCEPT !.frameAnalysis = Append(@, SkipAnalysis(fi)),
                             !.doc = Append(@, NoTree), !.orig = Append(@, NoTree)]
              ELSE [VecPost(v, VectorExportProgress(v.i - 1, v.total, "analysis", ""))
                      EXCEPT !.frameAnalysis = Append(@, FrameAnalysis(fi, VecCatalogue[kind])),
                             !.doc = Append(@, VecCatalogue[kind]),
                             !.orig = Append(@, VecCatalogue[kind])]
  IN IF v.i < v.total THEN [v1 EXCEPT !.i = @ + 1]
     ELSE ExportFrames([v1 EXCEPT !.i = 1], conns)

NewPass(total) ==
  [pc |-> "lookup", total |-> total, i |-> 1, frameAnalysis |-> <<>>, doc |-> <<>>,
   orig |-> <<>>, exportResults |-> <<>>, segs |-> <<>>, nodes |-> <<>>,
   state |-> NoState, segmentExports |-> <<>>, call |-> NoCall, error |-> "",
   log |-> <<>>,
   out |-> <<VectorExportProgress(0, total, "", "")>>]

\* performVectorExport is called with `total` frames and runs to its first
\* await (or to its end when there is no frame).
PassStarted(total, conns) ==
  IF total = 0 THEN ExportFrames(NewPass(0), conns) ELSE NewPass(total)

InitVec ==
  /\ vp = [pc |-> "start"]
  /\ req = [pc |-> "idle"]
  /\ connections \in VecConnections
  /\ frameData = <<>> /\ tasks = {} /\ nEvents = 0 /\ outbox = <<>>
  /\ PlanIdle /\ IsoIdle

VecStep(r) ==
  /\ vp' = [r EXCEPT !.out = <<>>]
  /\ outbox' = outbox \o r.out
  /\ UNCHANGED <<frameData, connections, tasks, nEvents, planVars, isoVars, req>>

VecStart ==
  /\ vp.pc = "start"
  /\ \E total \in 0..MaxPassFrames : VecStep(PassStarted(total, connections))

VecLookupReturn ==
  /\ vp.pc = "lookup"
  /\ \E kind \in 0..Len(VecCatalogue) : VecStep(LookupReturned(vp, kind, connections))

VecExportReturn ==
  /\ vp.pc = "export"
  /\ \E outcome \in ExportOutcomes(vp.call.format) :
       VecStep(ExportReturned(vp, outcome, connections))

NextVec == VecStart \/ VecLookupReturn \/ VecExportReturn

SpecVec == InitVec /\ [][NextVec]_vars


-----------------------------------------------------------------------------
(* Claims about the vector pass (SpecVec)                                  *)

PassRunning == vp.pc \in {"lookup", "export", "done"}

\* Position k of the log is a failed export call of the segmented export of
\* frame f (its background pass or one of its segments).
SegmentCallFailed(f, k) ==
  /\ vp.log[k].op = "export" /\ vp.log[k].frame = f
  /\ vp.log[k].role \in {"bg", "seg"} /\ ~vp.log[k].ok

\* The buffers handed to the UI so far.
HandedOff ==
  UNION { Range(outbox[m].pdfBuffers) :
            m \in { j \in DOMAIN outbox :
                      outbox[j].type \in {"merge-vector-pdfs", "merge-vector-pdfs-chunk"} } }

\* C5: when an export call of a frame's segmented export fails, the nodes
\* are restored to the snapshot, no further export call is made for the
\* frame, the frame has exactly one result and that result is a failed one,
\* and nothing of the frame is handed to the UI.
C5_FailedSegmentedExport ==
  PassRunning =>
    \A f \in DOMAIN vp.doc : \A k \in DOMAIN vp.log :
      SegmentCallFailed(f, k) =>
        /\ \E m \in (k + 1)..Len(vp.log) : vp.log[m].op = "restore" /\ vp.log[m].frame = f
        /\ vp.doc[f] = vp.orig[f]
        /\ \A m \in (k + 1)..Len(vp.log) : ~(vp.log[m].op = "export" /\ vp.log[m].frame = f)
        /\ Len(SelectSeq(vp.exportResults, LAMBDA r : r.id = f)) = 1
        /\ \A j \in DOMAIN vp.exportResults :
             vp.exportResults[j].id = f =>
               vp.exportResults[j].skipped /\ vp.exportResults[j].segments = <<>>
        /\ \A b \in HandedOff : b.id # f

\* The pass is over; a frame's segmented export failed at a segment after an
\* earlier call of that frame had produced a buffer, and the buffers of
\* another frame were handed off.
C5_Witness ==
  /\ vp.pc = "done"
  /\ HandedOff # {}
  /\ \E f \in DOMAIN vp.doc : \E k \in DOMAIN vp.log :
       /\ SegmentCallFailed(f, k)
       /\ \E m \in 1..(k - 1) :
            vp.log[m].op = "export" /\ vp.log[m].frame = f /\ vp.log[m].ok

\* Frame f of the pass was found hybrid with critical effects (decision png).
CriticalHybrid(f) ==
  /\ vp.frameAnalysis[f].strategy = "png"
  /\ vp.frameAnalysis[f].layerAnalysis.frameStrategy = "hybrid"
  /\ vp.frameAnalysis[f].layerAnalysis.hasCriticalEffects

\* C8 as stated: a frame whose decision is png because it is hybrid with
\* critical effects gets no segment planning, no isolation and no PDF export
\* call, and once the pass is over exactly one export call was made for it,
\* a whole-frame PNG.
C8_Claim ==
  PassRunning =>
    \A f \in DOMAIN vp.frameAnalysis :
      CriticalHybrid(f) =>
        /\ \A k \in DOMAIN vp.log :
             vp.log[k].frame = f =>
               /\ vp.log[k].op \notin {"plan", "isolate"}
               /\ vp.log[k].op = "export" =>
                    vp.log[k].format = "PNG" /\ vp.log[k].role = "all-raster"
        /\ vp.pc = "done" =>
             Len(SelectSeq(vp.log, LAMBDA e : e.op = "export" /\ e.frame = f)) = 1


-----------------------------------------------------------------------------
(* SpecNode: the classifier, the decision and the planner on a frame with  *)
(* one layer, the layer ranging over every combination of effects, blend   *)
(* mode and mask flag.                                                     *)

MaxEffects == 2      \* effects on the layer

\* The values of node.blendMode (the BlendMode type of the plugin API).
BlendModes ==
  {"PASS_THROUGH", "NORMAL", "DARKEN", "MULTIPLY", "LINEAR_BURN", "COLOR_BURN",
   "LIGHTEN", "SCREEN", "LINEAR_DODGE", "COLOR_DODGE", "OVERLAY", "SOFT_LIGHT",
   "HARD_LIGHT", "DIFFERENCE", "EXCLUSION", "HUE", "SATURATION", "COLOR",
   "LUMINOSITY"}

\* The default compositing modes: NORMAL, and PASS_THROUGH on containers.
DefaultBlendModes == {"NORMAL", "PASS_THROUGH"}

\* The effects of a layer: the four kinds the code names and one it does not.
EffectValues ==
  { Effect(ty, v) : ty \in RASTERIZE_EFFECTS \cup {"NOISE"}, v \in BOOLEAN }

EffectLists == UNION { [1..k -> EffectValues] : k \in 0..MaxEffects }

InitNode ==
  /\ \E effs \in EffectLists, blend \in BlendModes, mask \in BOOLEAN :
       tree = FlatFrame(FilledFrame,
                <<Node("RECTANGLE", TRUE, effs, blend, mask, OnePaint, NoPaint)>>)
  /\ ppc = "input"
  /\ layerAnalysis = NewResults
  /\ decision = NoDecision
  /\ segments = <<>>
  /\ CtlIdle /\ IsoIdle /\ VecIdle

SpecNode == InitNode /\ [][NextPlan]_vars

\* The layer of SpecNode's frame.
Layer == tree.node[2]

HasVisibleEffect(nd, kinds) ==
  \E i \in DOMAIN nd.effects : nd.effects[i].visible # FALSE /\ nd.effects[i].type \in kinds

\* The planner put the layer into one raster segment / one vector segment.
PlannedAs(type) == segments = <<[type |-> type, nodes |-> <<2>>]>>

\* The classifier counted the layer as raster (the frame itself is a vector
\* layer here).
CountedRaster == layerAnalysis.rasterLayers = 1

-----------------------------------------------------------------------------
(* Claims about single layers and scenarios                                *)

ShadowRect == Node("RECTANGLE", TRUE, <<Effect("DROP_SHADOW", TRUE)>>, "NORMAL", FALSE, OnePaint, NoPaint)

\* C11 as stated: for a frame whose children are a rectangle with a visible
\* DROP_SHADOW and a plain rectangle, the classifier says hybrid without
\* critical effects, the decision is vector with segmentation, and the plan
\* is the raster segment of the shadow rectangle and the vector segment of
\* the plain one, in tree order.
C11_Claim ==
  /\ (ppc = "planned" /\ tree = FlatFrame(FilledFrame, <<ShadowRect, PlainRect>>)) =>
       /\ layerAnalysis.frameStrategy = "hybrid"
       /\ ~layerAnalysis.hasCriticalEffects
       /\ decision.strategy = "vector-with-fallback"
       /\ segments = <<[type |-> "raster", nodes |-> <<2>>], [type |-> "vector", nodes |-> <<3>>]>>
  /\ (ppc = "planned" /\ tree = FlatFrame(FilledFrame, <<PlainRect, ShadowRect>>)) =>
       /\ layerAnalysis.frameStrategy = "hybrid"
       /\ ~layerAnalysis.hasCriticalEffects
       /\ decision.strategy = "vector-with-fallback"
       /\ segments = <<[type |-> "vector", nodes |-> <<2>>], [type |-> "raster", nodes |-> <<3>>]>>

\* C12 as stated: a layer whose blend mode is not a default one mandates
\* rasterization, whatever its effects and mask flag: nodeNeedsRaster is
\* true and the planner puts it into a raster segment.
C12_Claim ==
  Layer.blendMode \notin DefaultBlendModes =>
    /\ nodeNeedsRaster(Layer)
    /\ ppc = "planned" => PlannedAs("raster")

\* C13 as stated: a mask with a normal blend mode whose effects are all
\* non-visible is not raster-mandating, neither for nodeNeedsRaster (and so
\* the planner) nor for analyzeFrameLayers.
C13_Claim ==
  (/\ Layer.isMask /\ Layer.blendMode = "NORMAL"
   /\ \A i \in DOMAIN Layer.effects : Layer.effects[i].visible = FALSE) =>
    /\ ~nodeNeedsRaster(Layer)
    /\ ppc = "planned" => PlannedAs("vector")
    /\ ppc # "input" => ~CountedRaster

\* C14: a layer with a visible effect of one of the four rasterize kinds
\* mandates rasterization (nodeNeedsRaster is true, the planner makes it a
\* raster segment); a layer that is no mask, has the normal blend mode and
\* only non-visible effects does not (it is planned as a vector segment).
C14_EffectsMandateRaster ==
  /\ HasVisibleEffect(Layer, {"LAYER_BLUR", "BACKGROUND_BLUR", "DROP_SHADOW", "INNER_SHADOW"}) =>
       /\ nodeNeedsRaster(Layer)
       /\ ppc = "planned" => PlannedAs("raster")
  /\ (/\ ~Layer.isMask /\ Layer.blendMode = "NORMAL"
      /\ \A i \in DOMAIN Layer.effects : Layer.effects[i].visible = FALSE) =>
       /\ ~nodeNeedsRaster(Layer)
       /\ ppc = "planned" => PlannedAs("vector")

\* The planner has made a raster segment of a layer that is no mask, has
\* the normal blend mode, a hidden blur and a visible inner shadow.
C14_Witness ==
  /\ ppc = "planned" /\ PlannedAs("raster")
  /\ ~Layer.isMask /\ Layer.blendMode = "NORMAL"
  /\ Layer.effects = <<Effect("LAYER_BLUR", FALSE), Effect("INNER_SHADOW", TRUE)>>


-----------------------------------------------------------------------------
(* Further claims about the vector pass (SpecVec)                          *)

\* The results the pass has pushed for frame f.
ResultsOf(f) == SelectSeq(vp.exportResults, LAMBDA r : r.id = f)

\* The export calls made for frame f after position k of the log.
ExportsAfter(f, k) ==
  SelectSeq(SubSeq(vp.log, k + 1, Len(vp.log)), LAMBDA e : e.op = "export" /\ e.frame = f)

\* C15 as stated: when the whole-frame PDF export of a frame fails, exactly
\* one whole-frame PNG export is attempted; if it succeeds the frame's result
\* is a PNG buffer; if it fails too the frame is marked failed with a reason
\* that holds the PDF error message and the PNG error message.
C15_Claim ==
  PassRunning =>
    \A f \in DOMAIN vp.doc : \A k \in DOMAIN vp.log :
      (/\ vp.log[k].op = "export" /\ vp.log[k].frame = f
       /\ vp.log[k].role = "whole" /\ ~vp.log[k].ok
       /\ ResultsOf(f) # <<>>) =>
        /\ Len(ExportsAfter(f, k)) = 1
        /\ ExportsAfter(f, k)[1].format = "PNG"
        /\ ExportsAfter(f, k)[1].role = "fallback"
        /\ Len(ResultsOf(f)) = 1
        /\ IF ExportsAfter(f, k)[1].ok
             THEN /\ ResultsOf(f)[1].isPng /\ ResultsOf(f)[1].pngData # NoData
                  /\ ~ResultsOf(f)[1].skipped
             ELSE /\ ResultsOf(f)[1].skipped
                  /\ {ExportError("PDF"), ExportError("PNG")} \subseteq Range(ResultsOf(f)[1].error)


-----------------------------------------------------------------------------
(* Claims about the raster pass of a batch (Spec): performExport as the    *)
(* export-batch message runs it                                            *)

\* The pass of task t is over after this step.
BatchEnds(t) ==
  /\ t \in tasks /\ t.kind = "batch"
  /\ \A u \in tasks' : u.id # t.id

\* The messages this step posts.
Posted == SubSeq(outbox', Len(outbox) + 1, Len(outbox'))

\* The ids of the frames whose images message m hands off (the model keeps
\* the id of a frame image only).
HandedFrames(m) == Range(m.frames)

\* C16 as stated, for the batch pass: a pass in which at least one frame was
\* exported ends with one hand-off message that holds every exported frame,
\* whatever happens to the other frames.
C16_Claim ==
  [][\A t \in tasks :
       (BatchEnds(t) /\ t.acc # <<>>) =>
         /\ Len(Posted) = 1
         /\ Posted[1].type = "generate-pdf"
         /\ \A k \in DOMAIN t.acc : t.acc[k] \in HandedFrames(Posted[1])]_vars

\* C17 as stated, for the batch pass: every connection handed off starts at
\* a frame whose result is in the same hand-off, and every internal one also
\* ends at such a frame.
C17_Claim ==
  \A k \in DOMAIN outbox :
    outbox[k].type = "generate-pdf" =>
      \A c \in DOMAIN outbox[k].connections :
        /\ outbox[k].connections[c].fromFrameId \in HandedFrames(outbox[k])
        /\ outbox[k].connections[c].type = "internal" =>
             outbox[k].connections[c].toFrameId \in HandedFrames(outbox[k])

\* C18 as stated, for the batch pass: a frame of the pass that no longer
\* resolves to a FRAME is reported in the hand-off.  generate-pdf has no
\* field for skipped frames (code.js:1512-1519), so a frame is reported only
\* by being among its frames.
C18_Claim ==
  [][\A t \in tasks :
       (BatchEnds(t) /\ Posted # <<>>) =>
         \A k \in DOMAIN t.list : t.list[k] \in HandedFrames(Posted[1])]_vars

\* C19 as stated, for the batch pass: no hand-off message is without an
\* exported frame, and a pass that ends without one posts exactly one error
\* notification.
C19_Claim ==
  /\ [](\A k \in DOMAIN outbox :
          outbox[k].type = "generate-pdf" => outbox[k].frames # <<>>)
  /\ [][\A t \in tasks :
          (/\ BatchEnds(t) /\ t.acc = <<>>
           /\ \A k \in DOMAIN Posted :
                Posted[k].type = "generate-pdf" => Posted[k].frames = <<>>) =>
            (Len(Posted) = 1 /\ Posted[1].type = "error")]_vars


\* The findings a result carries: error and reason are its only text fields.
Tagged(r) == r.error # <<>> \/ r.reason # <<>>

\* C20 as stated: a PDF buffer that fails validation is still handed off,
\* and the result that holds it carries a tag recording the failure.
C20_Claim ==
  \A b \in HandedOff :
    (b.pdfData # NoData /\ ~validatePDFData(b.pdfData).isValid) => Tagged(b)


-----------------------------------------------------------------------------
(* SpecPdf: one export-pdf message.  exportToPDF orders the frames, hands  *)
(* a vector request to performVectorExport, and for a raster request       *)
(* estimates the memory, posts a batch plan when the estimate exceeds the   *)
(* limit and otherwise runs performExport, whose awaits are the lookup and  *)
(* the export of each frame.  A quality scale is held in tenths; frame      *)
(* sizes are such that every estimate is a whole number of bytes.           *)

MaxPdfFrames == 3        \* tracked frames when the request arrives
BYTES_PER_PIXEL == 4
SAFE_MEMORY_LIMIT == 419430400

\* Width and height of the frames of the document.
FrameSizes == { <<800, 600>>, <<5000, 5000>> }

\* msg.qualityScale, in tenths.
QualityScales == {5, 10, 15, 20, 30}

SizedFrame(f, size) ==
  [id |-> f, name |-> <<"Frame", f>>, width |-> size[1], height |-> size[2]]

\* PNG_COMPRESSION_ESTIMATE in hundredths (code.js:891-902).
PNG_COMPRESSION_ESTIMATE(qualityScale) ==
  IF qualityScale >= 30 THEN 50
  ELSE IF qualityScale >= 20 THEN 45
  ELSE IF qualityScale >= 15 THEN 35
  ELSE IF qualityScale >= 10 THEN 30
  ELSE 25

\* scaledWidth * scaledHeight * BYTES_PER_PIXEL * PNG_COMPRESSION_ESTIMATE
\* (code.js:912-915), the factors grouped so that every intermediate value
\* is a whole number.
estimatedBytes(frame, qualityScale) ==
  LET scaledWidth == (frame.width * qualityScale) \div 10
      scaledHeight == (frame.height * qualityScale) \div 10
  IN ((scaledWidth * scaledHeight) \div 5)
       * ((BYTES_PER_PIXEL * PNG_COMPRESSION_ESTIMATE(qualityScale)) \div 20)

frameMemoryEstimates(orderedFrames, qualityScale) ==
  [k \in DOMAIN orderedFrames |->
     [frame |-> orderedFrames[k],
      estimatedBytes |-> estimatedBytes(orderedFrames[k], qualityScale)]]

totalEstimatedMemory(estimates) ==
  SeqSum([k \in DOMAIN estimates |-> estimates[k].estimatedBytes])

\* Mutant of PackBatches: the frame at hand is left out of the test.
RECURSIVE PackBatchesLate(_, _, _, _)
PackBatchesLate(estimates, batches, currentBatch, currentBatchMemory) ==
  IF estimates = <<>>
    THEN (IF Len(currentBatch) > 0 THEN Append(batches, currentBatch) ELSE batches)
  ELSE LET frameEst == Head(estimates) IN
    IF currentBatchMemory > SAFE_MEMORY_LIMIT /\ Len(currentBatch) > 0
      THEN PackBatchesLate(Tail(estimates), Append(batches, currentBatch),
                           <<frameEst.frame>>, frameEst.estimatedBytes)
      ELSE PackBatchesLate(Tail(estimates), batches, Append(currentBatch, frameEst.frame),
                           currentBatchMemory + frameEst.estimatedBytes)

\* Mutant of PackBatches: a new batch is started after every frame.
RECURSIVE PackBatchesEach(_, _, _, _)
PackBatchesEach(estimates, batches, currentBatch, currentBatchMemory) ==
  IF estimates = <<>> THEN batches
  ELSE PackBatchesEach(Tail(estimates), Append(batches, <<Head(estimates).frame>>), <<>>, 0)

\* The batching loop (code.js:933-951).
RECURSIVE PackBatches(_, _, _, _)
PackBatches(estimates, batches, currentBatch, currentBatchMemory) ==
  IF estimates = <<>>
    THEN (IF Len(currentBatch) > 0 THEN Append(batches, currentBatch) ELSE batches)
  ELSE LET frameEst == Head(estimates) IN
    IF currentBatchMemory + frameEst.estimatedBytes > SAFE_MEMORY_LIMIT /\ Len(currentBatch) > 0
      THEN PackBatches(Tail(estimates), Append(batches, currentBatch),
                       <<frameEst.frame>>, frameEst.estimatedBytes)
      ELSE PackBatches(Tail(estimates), batches, Append(currentBatch, frameEst.frame),
                       currentBatchMemory + frameEst.estimatedBytes)

BatchWarning(batches, msg) ==
  [type |-> "batch-warning", batchCount |-> Len(batches),
   batches |-> [k \in DOMAIN batches |->
                  [batchNumber |-> k, frameCount |-> Len(batches[k]),
                   frameNames |-> [j \in DOMAIN batches[k] |-> batches[k][j].name]]],
   exportData |-> [frameOrder |-> msg.frameOrder,
                   selectedFrameIds |-> msg.selectedFrames,
                   qualityScale |-> msg.qualityScale]]

\* frameOrder.map(id => selectedFrames.find(frame => frame.id === id)).filter(Boolean)
\* over selectedFrames = frameData.filter(frame => selectedFrameIds.includes(frame.id))
orderedFramesOf(fd, frameOrder, selectedFrameIds) ==
  LET selectedFrames == SelectSeq(fd, LAMBDA frame : frame.id \in Range(selectedFrameIds))
      kept == SelectSeq(frameOrder, LAMBDA id : \E k \in DOMAIN selectedFrames :
                                                  selectedFrames[k].id = id)
  IN [k \in DOMAIN kept |->
        selectedFrames[CHOOSE j \in DOMAIN selectedFrames :
                         /\ selectedFrames[j].id = kept[k]
                         /\ \A m \in 1..(j - 1) : selectedFrames[m].id # kept[k]]]

FrameImage(frameInfo, imageData) ==
  [id |-> frameInfo.id, name |-> frameInfo.name, width |-> frameInfo.width,
   height |-> frameInfo.height, imageData |-> imageData]

RasterGeneratePdf(p, conns) ==
  [type |-> "generate-pdf", frames |-> p.frameImages,
   connections |-> RelevantConnections(conns, p.msg.selectedFrames),
   frameOrder |-> p.msg.frameOrder]

\* performExport at the head of its loop for frame i (code.js:1481-1519).
RasterLoop(p, i, conns) ==
  IF i > Len(p.orderedFrames)
    THEN [p EXCEPT !.pc = "done", !.i = i, !.out = Append(@, RasterGeneratePdf(p, conns))]
    ELSE [p EXCEPT !.pc = "lookup", !.i = i]

NewRequest(msg, orderedFrames) ==
  [pc |-> "start", msg |-> msg, orderedFrames |-> orderedFrames, i |-> 0,
   estimates |-> <<>>, batches |-> <<>>, frameImages |-> <<>>, calls |-> <<>>,
   out |-> <<>>]

\* Mutant of RasterRequest: the estimate is not compared with the limit.
RasterRequestNoPlan(p, conns) ==
  RasterLoop([p EXCEPT !.estimates = frameMemoryEstimates(p.orderedFrames, p.msg.qualityScale)],
             1, conns)

\* exportToPDF for a raster request, to its first await or its end
\* (code.js:886-974).
RasterRequest(p, conns) ==
  LET estimates == frameMemoryEstimates(p.orderedFrames, p.msg.qualityScale)
      batches == PackBatches(estimates, <<>>, <<>>, 0)
  IN IF totalEstimatedMemory(estimates) > SAFE_MEMORY_LIMIT
       THEN [p EXCEPT !.pc = "done", !.estimates = estimates, !.batches = batches,
                      !.out = Append(@, BatchWarning(batches, p.msg))]
       ELSE RasterLoop([p EXCEPT !.estimates = estimates], 1, conns)

\* The export-pdf messages the UI can send when n frames are tracked: the
\* frames in list order or reversed, or preceded by an id that is not
\* tracked; all of them selected, or all but the first.
ExportPdfMessages(n) ==
  { [type |-> "export-pdf", frameOrder |-> order, selectedFrames |-> sel,
     qualityScale |-> scale, exportType |-> ty] :
      order \in { [k \in 1..n |-> k], [k \in 1..n |-> n + 1 - k],
                  <<n + 1>> \o [k \in 1..n |-> k] },
      sel \in { [k \in 1..n |-> k], [k \in 1..(n - 1) |-> k + 1] },
      scale \in QualityScales, ty \in {"raster", "vector"} }

InitPdf ==
  /\ \E n \in 0..MaxPdfFrames : \E sizes \in [1..n -> FrameSizes] :
       frameData = [k \in 1..n |-> SizedFrame(k, sizes[k])]
  /\ connections \in VecConnections
  /\ tasks = {} /\ nEvents = 0 /\ outbox = <<>>
  /\ vp = [pc |-> "idle"]
  /\ req = [pc |-> "idle"]
  /\ PlanIdle /\ IsoIdle

PdfStep(r) ==
  /\ req' = [r EXCEPT !.out = <<>>]
  /\ outbox' = outbox \o r.out
  /\ UNCHANGED <<frameData, connections, tasks, nEvents, planVars, isoVars>>

\* The export-pdf message arrives (code.js:15-16, 874-982).  A vector request
\* goes to performVectorExport, which runs to its first await.
exportToPDF(msg) ==
  LET p == NewRequest(msg, orderedFramesOf(frameData, msg.frameOrder, msg.selectedFrames))
  IN IF msg.exportType = "vector"
       THEN LET pass == PassStarted(Len(p.orderedFrames), connections)
            IN /\ PdfStep([p EXCEPT !.pc = "vector", !.out = pass.out])
               /\ vp' = [pass EXCEPT !.out = <<>>]
       ELSE /\ PdfStep(RasterRequest(p, connections))
            /\ vp' = vp

ExportPdf ==
  /\ req.pc = "idle"
  /\ \E msg \in ExportPdfMessages(Len(frameData)) : exportToPDF(msg)

\* figma.getNodeByIdAsync(frameInfo.id) returns in performExport.
PdfLookupReturn ==
  /\ req.pc = "lookup"
  /\ \E found \in BOOLEAN :
       PdfStep(IF found
                 THEN [req EXCEPT !.pc = "export",
                                  !.calls = Append(@, req.orderedFrames[req.i].id)]
                 ELSE RasterLoop(req, req.i + 1, connections))
  /\ vp' = vp

\* frame.exportAsync returns in performExport, or throws: the catch of
\* exportToPDF posts the error (code.js:976-981).
PdfExportReturn ==
  /\ req.pc = "export"
  /\ \E outcome \in ExportOutcomes("PNG") :
       PdfStep(IF outcome.ok
                 THEN RasterLoop([req EXCEPT !.frameImages =
                                     Append(@, FrameImage(req.orderedFrames[req.i], outcome.data))],
                                 req.i + 1, connections)
                 ELSE [req EXCEPT !.pc = "done",
                                  !.out = Append(@, [type |-> "error",
                                                     message |-> <<"Failed to export frames: ",
                                                                   ExportError("PNG")>>])])
  /\ vp' = vp

NextPdf == ExportPdf \/ PdfLookupReturn \/ PdfExportReturn

SpecPdf == InitPdf /\ [][NextPdf]_vars

-----------------------------------------------------------------------------
(* A whole pass from its request: exportToPDF, then performExport or       *)
(* performVectorExport to the hand-off.  Frames of one size at one scale,  *)
(* so that every raster request is exported at once.                       *)

MaxRunFrames == 2        \* tracked frames when the request arrives

RunMessages(n) == { m \in ExportPdfMessages(n) : m.qualityScale = 15 }

InitRun ==
  /\ \E n \in 0..MaxRunFrames : frameData = [k \in 1..n |-> SizedFrame(k, <<800, 600>>)]
  /\ connections \in VecConnections
  /\ tasks = {} /\ nEvents = 0 /\ outbox = <<>>
  /\ vp = [pc |-> "idle"]
  /\ req = [pc |-> "idle"]
  /\ PlanIdle /\ IsoIdle

RunExportPdf ==
  /\ req.pc = "idle"
  /\ \E msg \in RunMessages(Len(frameData)) : exportToPDF(msg)

NextRun ==
  RunExportPdf \/ PdfLookupReturn \/ PdfExportReturn \/ VecLookupReturn \/ VecExportReturn

SpecRun == InitRun /\ [][NextRun]_vars


-----------------------------------------------------------------------------
(* Claims about the export-pdf request (SpecPdf)                           *)

\* The request has been taken up and is a raster / a vector one.
RasterTaken == req.pc # "idle" /\ req.msg.exportType = "raster"
VectorTaken == req.pc # "idle" /\ req.msg.exportType = "vector"

\* A batch plan was made for the request.
Planned == RasterTaken /\ req.batches # <<>>

EstimateOf(frame) == estimatedBytes(frame, req.msg.qualityScale)
BatchBytes(batch) == SeqSum([k \in DOMAIN batch |-> EstimateOf(batch[k])])

RECURSIVE Concat(_)
Concat(seqs) == IF seqs = <<>> THEN <<>> ELSE Head(seqs) \o Concat(Tail(seqs))

MessagesOfType(type) == { k \in DOMAIN outbox : outbox[k].type = type }

\* C21: every batch of the plan has a summed estimate of at most the limit,
\* unless it is a single frame whose own estimate exceeds the limit; every
\* frame of the request is in exactly one batch, whole.
C21_BatchesWithinBudget ==
  Planned =>
    /\ \A j \in DOMAIN req.batches :
         \/ BatchBytes(req.batches[j]) <= SAFE_MEMORY_LIMIT
         \/ /\ Len(req.batches[j]) = 1
            /\ EstimateOf(req.batches[j][1]) > SAFE_MEMORY_LIMIT
    /\ \A k \in DOMAIN req.orderedFrames :
         Occurrences(Concat(req.batches), req.orderedFrames[k]) = 1

\* A plan with a batch of two frames and a batch of one frame that alone
\* exceeds the limit.
C21_Witness ==
  /\ Planned
  /\ \E j \in DOMAIN req.batches : Len(req.batches[j]) >= 2
  /\ \E j \in DOMAIN req.batches :
       Len(req.batches[j]) = 1 /\ EstimateOf(req.batches[j][1]) > SAFE_MEMORY_LIMIT

\* C22: the batches are non-empty and their concatenation is the ordered
\* frame list; a batch after the first starts at the frame that would have
\* taken its predecessor over the limit, and no frame inside a batch would
\* have; three frames of one estimate e with 2e <= limit < 3e give the
\* batches <<frame 1, frame 2>> and <<frame 3>>.
C22_BatchesAreRuns ==
  Planned =>
    /\ \A j \in DOMAIN req.batches : req.batches[j] # <<>>
    /\ Concat(req.batches) = req.orderedFrames
    /\ \A j \in DOMAIN req.batches :
         /\ j > 1 => BatchBytes(req.batches[j - 1]) + EstimateOf(req.batches[j][1])
                       > SAFE_MEMORY_LIMIT
         /\ \A m \in 2..Len(req.batches[j]) :
              BatchBytes(SubSeq(req.batches[j], 1, m - 1)) + EstimateOf(req.batches[j][m])
                <= SAFE_MEMORY_LIMIT
    /\ (/\ Len(req.orderedFrames) = 3
        /\ \A k \in 2..3 : EstimateOf(req.orderedFrames[k]) = EstimateOf(req.orderedFrames[1])
        /\ 2 * EstimateOf(req.orderedFrames[1]) <= SAFE_MEMORY_LIMIT) =>
         req.batches = << <<req.orderedFrames[1], req.orderedFrames[2]>>,
                          <<req.orderedFrames[3]>> >>

\* The scenario: three frames of the same estimate, two of which fit.
C22_Witness ==
  /\ Planned
  /\ Len(req.orderedFrames) = 3
  /\ \A k \in 2..3 : EstimateOf(req.orderedFrames[k]) = EstimateOf(req.orderedFrames[1])
  /\ 2 * EstimateOf(req.orderedFrames[1]) <= SAFE_MEMORY_LIMIT
  /\ Len(req.batches) = 2

\* C23: a raster request whose summed estimate exceeds the limit gets one
\* batch-warning and nothing else: no lookup, no export call, no
\* generate-pdf.  A raster request within the limit gets no batch-warning
\* and goes into performExport.  A vector request gets no batch-warning.
C23_BatchWarningOrExport ==
  /\ (RasterTaken /\ totalEstimatedMemory(req.estimates) > SAFE_MEMORY_LIMIT) =>
       /\ req.pc = "done" /\ req.calls = <<>>
       /\ Len(outbox) = 1 /\ outbox[1].type = "batch-warning"
  /\ (RasterTaken /\ totalEstimatedMemory(req.estimates) <= SAFE_MEMORY_LIMIT) =>
       /\ MessagesOfType("batch-warning") = {}
       /\ req.pc \in {"lookup", "export", "done"}
       /\ req.pc = "done" =>
            /\ Len(outbox) = 1 /\ outbox[1].type \in {"generate-pdf", "error"}
            /\ outbox[1].type = "generate-pdf" =>
                 Len(req.calls) = Len(outbox[1].frames)
  /\ VectorTaken => MessagesOfType("batch-warning") = {}

\* A raster request over the limit was answered with a batch plan, the
\* frames being large enough at the requested scale.
C23_Witness ==
  /\ RasterTaken /\ req.pc = "done"
  /\ totalEstimatedMemory(req.estimates) > SAFE_MEMORY_LIMIT
  /\ MessagesOfType("batch-warning") # {}


-----------------------------------------------------------------------------
(* Claims about the hand-off of a vector pass (SpecVec)                    *)

PassDone == vp.pc = "done"
SuccessfulExports == SelectSeq(vp.exportResults, LAMBDA r : ~r.skipped)
ChunkCount == Len(ExportChunks(SuccessfulExports, <<>>, <<>>, 0))
MergeTypes ==
  {"merge-vector-pdfs", "merge-vector-pdfs-start", "merge-vector-pdfs-chunk",
   "merge-vector-pdfs-end"}
OutboxOfType(types) == SelectSeq(outbox, LAMBDA m : m.type \in types)

\* C24: with more than one chunk the pass ends with one start message that
\* announces the number of chunks, the chunk messages numbered 1..n in
\* order and one end message, consecutive and last in the outbox, and no
\* merge-vector-pdfs; with one chunk it ends with one merge-vector-pdfs and
\* no start, chunk or end message.
C24_ChunkProtocol ==
  PassDone =>
    LET n == ChunkCount
        sent == OutboxOfType(MergeTypes)
    IN /\ n > 1 =>
            /\ Len(sent) = n + 2
            /\ SubSeq(outbox, Len(outbox) - n - 1, Len(outbox)) = sent
            /\ sent[1].type = "merge-vector-pdfs-start" /\ sent[1].totalChunks = n
            /\ \A k \in 1..n :
                 sent[k + 1].type = "merge-vector-pdfs-chunk" /\ sent[k + 1].chunkIndex = k
            /\ sent[n + 2].type = "merge-vector-pdfs-end"
       /\ n = 1 => Len(sent) = 1 /\ sent[1].type = "merge-vector-pdfs"
       /\ n = 0 => sent = <<>>

\* A pass whose results went out in two chunks.
C24_Witness ==
  /\ PassDone /\ ChunkCount = 2
  /\ OutboxOfType({"merge-vector-pdfs-end"}) # <<>>

\* The chunks as the UI receives them.
SentChunks ==
  LET sent == OutboxOfType({"merge-vector-pdfs", "merge-vector-pdfs-chunk"})
  IN [k \in DOMAIN sent |-> sent[k].pdfBuffers]

ChunkBytes(chunk) == SeqSum([k \in DOMAIN chunk |-> estimateExportBytes(chunk[k])])

\* C25: every chunk handed off holds at most MAX_CHUNK_BYTES of buffers
\* (segment buffers included) unless it is a single result that alone
\* exceeds it; no chunk is empty; the chunks in order are the successful
\* results in order.
C25_ChunksWithinCeiling ==
  (PassDone /\ SuccessfulExports # <<>>) =>
    /\ \A k \in DOMAIN SentChunks :
         /\ SentChunks[k] # <<>>
         /\ \/ ChunkBytes(SentChunks[k]) <= MAX_CHUNK_BYTES
            \/ /\ Len(SentChunks[k]) = 1
               /\ estimateExportBytes(SentChunks[k][1]) > MAX_CHUNK_BYTES
    /\ Concat(SentChunks) = SuccessfulExports

\* A hand-off with a chunk of one segmented result whose buffers alone
\* exceed the ceiling.
C25_Witness ==
  /\ PassDone
  /\ \E k \in DOMAIN SentChunks :
       /\ Len(SentChunks[k]) = 1
       /\ SentChunks[k][1].segments # <<>>
       /\ estimateExportBytes(SentChunks[k][1]) > MAX_CHUNK_BYTES


-----------------------------------------------------------------------------
(* Claims about a whole pass (SpecRun)                                     *)

\* The caller's frameOrder restricted to the tracked, selected frames.
CallerOrder ==
  SelectSeq(req.msg.frameOrder,
            LAMBDA id : /\ \E k \in DOMAIN frameData : frameData[k].id = id
                        /\ id \in Range(req.msg.selectedFrames))

\* ids follow one another as in CallerOrder.
InCallerOrder(ids) ==
  \E pos \in [DOMAIN ids -> DOMAIN CallerOrder] :
    /\ \A k \in DOMAIN ids : CallerOrder[pos[k]] = ids[k]
    /\ \A a, b \in DOMAIN ids : a < b => pos[a] < pos[b]

IdsOf(rs) == [k \in DOMAIN rs |-> rs[k].id]

\* The export calls of the vector pass so far; frame k of the pass is the
\* k-th frame of orderedFrames.
ExportLog == SelectSeq(vp.log, LAMBDA e : e.op = "export")
SegmentCalls(f) ==
  LET es == SelectSeq(ExportLog, LAMBDA e : e.frame = f /\ e.role \in {"bg", "seg"})
  IN [k \in DOMAIN es |-> [role |-> es[k].role, format |-> es[k].format, seg |-> es[k].seg]]

\* The calls of the segmented export of frame f, from its original tree:
\* the background pass when the frame has one, then the planner's segments.
PlannedCalls(f) ==
  LET segs == buildFrameSegments(vp.orig[f])
  IN (IF hasFrameBackground(vp.orig[f].node[1])
        THEN <<[role |-> "bg", format |-> "PDF", seg |-> 0]>> ELSE <<>>)
     \o [k \in DOMAIN segs |->
           [role |-> "seg", format |-> IF segs[k].type = "raster" THEN "PNG" ELSE "PDF",
            seg |-> k]]

IsPrefix(a, b) == Len(a) <= Len(b) /\ a = SubSeq(b, 1, Len(a))

\* C26: in a raster pass the export calls and the handed-off images follow
\* the caller's frameOrder restricted to the tracked, selected frames; in a
\* vector pass the frames are those of that list, the export calls go
\* through them in order and the handed-off results keep the order; the
\* export calls of a segmented frame are the background pass first, when
\* there is one, then the segments in the planner's order, and the
\* segments of the frame's result are in the order of those calls.
C26_PassOrder ==
  /\ (req.pc # "idle" /\ req.msg.exportType = "raster") =>
       /\ IdsOf(req.orderedFrames) = CallerOrder
       /\ InCallerOrder(req.calls)
       /\ \A k \in DOMAIN outbox :
            outbox[k].type = "generate-pdf" =>
              InCallerOrder(IdsOf(outbox[k].frames)) /\ IdsOf(outbox[k].frames) = req.calls
  /\ (req.pc # "idle" /\ req.msg.exportType = "vector") =>
       /\ IdsOf(req.orderedFrames) = CallerOrder
       /\ vp.total = Len(CallerOrder)
       /\ \A a, b \in DOMAIN ExportLog : a < b => ExportLog[a].frame <= ExportLog[b].frame
       /\ \A a, b \in DOMAIN vp.exportResults :
            a < b => vp.exportResults[a].id < vp.exportResults[b].id
       /\ PassDone => \A a, b \in DOMAIN Concat(SentChunks) :
            a < b => Concat(SentChunks)[a].id < Concat(SentChunks)[b].id
       /\ \A f \in DOMAIN vp.orig :
            /\ SegmentCalls(f) # <<>> => IsPrefix(SegmentCalls(f), PlannedCalls(f))
            /\ \A k \in DOMAIN vp.exportResults :
                 (vp.exportResults[k].id = f /\ vp.exportResults[k].hasSegments) =>
                   /\ SegmentCalls(f) = PlannedCalls(f)
                   /\ [j \in DOMAIN vp.exportResults[k].segments |->
                         vp.exportResults[k].segments[j].type]
                      = [j \in DOMAIN PlannedCalls(f) |->
                           IF PlannedCalls(f)[j].format = "PNG" THEN "png" ELSE "vector"]

\* A vector pass over two frames requested in reverse list order, the first
\* one exported by background and two segments of different kinds, both
\* handed off.
C26_Witness ==
  /\ req.pc = "vector" /\ PassDone
  /\ req.msg.frameOrder = <<2, 1>> /\ CallerOrder = <<2, 1>>
  /\ Len(Concat(SentChunks)) = 2
  /\ Concat(SentChunks)[1].hasSegments
  /\ Len(SegmentCalls(1)) = 3
  /\ SegmentCalls(1)[2].format # SegmentCalls(1)[3].format

\* A raster pass over two frames requested in reverse list order, handed off.
C26_RasterWitness ==
  /\ req.pc = "done" /\ req.msg.exportType = "raster"
  /\ req.calls = <<2, 1>>
  /\ \E k \in DOMAIN outbox : outbox[k].type = "generate-pdf"


-----------------------------------------------------------------------------
(* SpecVal: validatePDFData applied to a buffer.  A buffer is described by *)
(* what the function reads: its length, its first five bytes, whether the  *)
(* last 100 bytes hold the %%EOF marker, whether the first 2000 bytes hold *)
(* " obj", whether they hold "undefined" or "NaN", and whether the middle  *)
(* sample is repetitive.                                                   *)

BufferLengths == {14, ShortPdfBytes, 99, 100, 101, PdfBytes}
BufferHeaders == {PdfHeader, <<"%", "P", "D", "F", "1">>, PngHeader, <<"%", "P", "S", "-", "A">>}

Buffers ==
  { Buffer(n, h, eof, obj, art, rep) :
      n \in BufferLengths, h \in BufferHeaders, eof \in BOOLEAN, obj \in BOOLEAN,
      art \in BOOLEAN, rep \in BOOLEAN }

InitVal ==
  /\ \E b \in Buffers \cup {NoData} : req = [pc |-> "buffer", pdfData |-> b]
  /\ vp = [pc |-> "idle"]
  /\ CtlIdle /\ PlanIdle /\ IsoIdle

Validate ==
  /\ req.pc = "buffer"
  /\ req' = [pc |-> "validated", pdfData |-> req.pdfData,
             result |-> validatePDFData(req.pdfData)]
  /\ UNCHANGED <<ctlVars, planVars, isoVars, vp>>

NextVal == Validate

SpecVal == InitVal /\ [][NextVal]_vars

Validated == req.pc = "validated"

\* The buffer starts with the five bytes %PDF-, has the %%EOF marker at its
\* end and holds no "undefined" or "NaN".
WellFormed(b) == b.header = PdfHeader /\ b.eof /\ ~b.artifacts

\* C27 as stated: every buffer shorter than 100 bytes is invalid, and every
\* buffer with the magic, the end marker and no artifacts is valid.
C27_Original ==
  Validated =>
    /\ req.pdfData.length < 100 => ~req.result.isValid
    /\ WellFormed(req.pdfData) => req.result.isValid

\* C27: every buffer shorter than 100 bytes is invalid, and every buffer of
\* at least 100 bytes with the magic, the end marker and no artifacts is
\* valid (a missing " obj" or a repetitive middle only adds warnings).
C27_ValidatorVerdict ==
  Validated =>
    /\ req.pdfData.length < 100 => ~req.result.isValid
    /\ (req.pdfData.length >= 100 /\ WellFormed(req.pdfData)) =>
         req.result.isValid /\ req.result.errors = <<>>

\* A buffer of exactly 100 bytes with the magic and the end marker but no
\* object and a repetitive middle was found valid, with warnings.
C27_Witness ==
  /\ Validated
  /\ req.pdfData.length = 100 /\ WellFormed(req.pdfData)
  /\ ~req.pdfData.obj /\ req.pdfData.repetitive
  /\ req.result.isValid /\ Len(req.result.warnings) = 2


-----------------------------------------------------------------------------
(* Further claims about the planner and the classifier (SpecPlan)          *)

\* A frame with the default blend mode and no effects, with or without a
\* fill, whose only content is a visible TEXT node that links to a URL.
OnlyLinkedText ==
  /\ tree.n = 2
  /\ tree.node[1].type = "FRAME" /\ tree.node[1].visible
  /\ tree.node[1].effects = <<>> /\ tree.node[1].blendMode = "PASS_THROUGH"
  /\ tree.node[2] = LinkedText

\* C28: for a frame whose only content is one TEXT node with a URL
\* hyperlink (the attributes the scenario leaves open being the defaults),
\* the planner returns one vector segment that holds exactly that node and
\* the classifier reports frameStrategy = vector.
C28_LinkedTextIsVector ==
  (ppc = "planned" /\ OnlyLinkedText) =>
    /\ segments = <<[type |-> "vector", nodes |-> <<2>>]>>
    /\ layerAnalysis.frameStrategy = "vector"

\* The scenario was planned, for a frame with a fill of its own.
C28_Witness ==
  /\ ppc = "planned" /\ OnlyLinkedText
  /\ hasFrameBackground(tree.node[1])
  /\ Len(segments) = 1


-----------------------------------------------------------------------------
(* Further claims about the scene mutator (SpecIso)                        *)

\* a is m or an ancestor of m, by the parent links of the frame's subtree.
RECURSIVE SelfOrAncestor(_, _)
SelfOrAncestor(a, m) ==
  \/ a = m
  \/ m # 1 /\ SelfOrAncestor(a, itree.parent[m])

\* What isolation for the segment S leaves of a paint property: a paint
\* list is the snapshot's for a member of S and empty for any other node; a
\* mixed value, and a node without the property, stay as they are.
PaintsAfterIsolate(orig, member) ==
  IF orig.tag = "paints" THEN (IF member THEN orig ELSE Paints(<<>>)) ELSE orig

\* C29: after isolate for a segment S, a node is visible iff it was visible
\* in the snapshot and is a member of S or an ancestor, up to the frame, of
\* a member; fills and strokes that are paint lists are the snapshot's on
\* the members of S and empty elsewhere; and a mixed fills or strokes value
\* is what it was, after snapshot, isolate and restore alike.
C29_IsolateEffect ==
  /\ ipc = "isolated" =>
       \A n \in 1..itree.n :
         /\ itree.node[n].visible =
              (iorig[n].visible /\ \E m \in Range(lastSegment) : SelfOrAncestor(n, m))
         /\ itree.node[n].fills = PaintsAfterIsolate(iorig[n].fills, n \in Range(lastSegment))
         /\ itree.node[n].strokes = PaintsAfterIsolate(iorig[n].strokes, n \in Range(lastSegment))
  /\ ipc \in {"captured", "isolated", "restored"} =>
       \A n \in 1..itree.n :
         /\ iorig[n].fills.tag = "mixed" =>
              itree.node[n].fills = Mixed /\ n \notin DOMAIN istate.fills
         /\ iorig[n].strokes.tag = "mixed" =>
              itree.node[n].strokes = Mixed /\ n \notin DOMAIN istate.strokes

\* After a second isolation: a member of the segment with mixed fills, a
\* node outside the segment that lost its visibility and its paints, and a
\* hidden member of the segment that stayed hidden with its paints back.
C29_Witness ==
  /\ ipc = "isolated" /\ isoCount = 2
  /\ \E n \in Range(lastSegment) : iorig[n].fills.tag = "mixed"
  /\ \E n \in (1..itree.n) \ Range(lastSegment) :
       /\ iorig[n].visible /\ ~itree.node[n].visible
       /\ hasVisiblePaints(iorig[n].fills) /\ itree.node[n].fills = Paints(<<>>)


\* n is below the frame and it, or an ancestor of it below the frame, has
\* visible = false.
Hidden(t, n) == n # 1 /\ ~PathVisible(t, n)

\* n lies in the subtree of a node that the walk reaches and that mandates
\* rasterization: collectSubtreeNodes puts that whole subtree into a raster
\* segment.
RECURSIVE UnderRaster(_, _)
UnderRaster(t, n) ==
  /\ n # 1
  /\ \/ PathVisible(t, n) /\ nodeNeedsRaster(t.node[n])
     \/ UnderRaster(t, t.parent[n])

\* C30 as stated: a node with visible = false and the nodes of its subtree
\* are in no segment.
C30_Original ==
  ppc = "planned" =>
    \A n \in 1..tree.n : Hidden(tree, n) => Occurrences(Flatten(segments), n) = 0

\* C30: a node with visible = false and the nodes of its subtree are in no
\* vector segment, and in no segment at all unless they lie below a
\* rasterized node, whose raster segment then holds them.
C30_HiddenSkipped ==
  ppc = "planned" =>
    \A n \in 1..tree.n : Hidden(tree, n) =>
      /\ \A k \in DOMAIN segments :
           n \in Range(segments[k].nodes) => segments[k].type = "raster"
      /\ Occurrences(Flatten(segments), n) = IF UnderRaster(tree, n) THEN 1 ELSE 0

\* A renderable node that is visible itself and lies below a hidden node is
\* in no segment.
C30_Witness ==
  /\ ppc = "planned"
  /\ \E n \in 2..tree.n :
       /\ tree.node[n].visible /\ nodeHasRenderableSelf(tree.node[n])
       /\ Hidden(tree, n) /\ ~UnderRaster(tree, n)
       /\ Occurrences(Flatten(segments), n) = 0


\* a is n or an ancestor of n, by the parent links of the tree.
RECURSIVE InSubtree(_, _, _)
InSubtree(t, a, n) ==
  \/ a = n
  \/ n # 1 /\ InSubtree(t, a, t.parent[n])

\* The nodes of the subtree of a in the pre-order of the frame.
SubtreeInOrder(t, a) == SelectSeq(collectAllNodes(t), LAMBDA n : InSubtree(t, a, n))

\* The raster-mandating nodes the walk reaches: visible, below visible
\* nodes, and below no other raster-mandating node (the frame aside).
RasterHeads(t) ==
  { n \in 2..t.n :
      /\ PathVisible(t, n) /\ nodeNeedsRaster(t.node[n])
      /\ \A a \in 2..t.n : (a # n /\ InSubtree(t, a, n)) => ~nodeNeedsRaster(t.node[a]) }

PositionIn(seq, x) == CHOOSE k \in DOMAIN seq : seq[k] = x

\* C31: every raster-mandating node the walk reaches has exactly one raster
\* segment, which is its whole subtree in pre-order; the nodes of that
\* subtree are in no other segment; there are no other raster segments, so
\* two such nodes in a row give two segments; and the segments follow the
\* pre-order of the frame with no two vector segments in a row, so the open
\* vector run is flushed as one segment before each raster segment.
C31_RasterSegments ==
  ppc = "planned" =>
    /\ \A n \in RasterHeads(tree) :
         /\ Cardinality({ k \in DOMAIN segments :
                            segments[k] = [type |-> "raster",
                                           nodes |-> SubtreeInOrder(tree, n)] }) = 1
         /\ \A d \in Range(SubtreeInOrder(tree, n)) : Occurrences(Flatten(segments), d) = 1
    /\ Cardinality({ k \in DOMAIN segments : segments[k].type = "raster" })
         = Cardinality(RasterHeads(tree))
    /\ \A k \in DOMAIN segments :
         /\ segments[k].nodes # <<>>
         /\ (k < Len(segments) /\ segments[k].type = "vector") =>
              segments[k + 1].type = "raster"
    /\ \A a, b \in DOMAIN Flatten(segments) :
         a < b => PositionIn(collectAllNodes(tree), Flatten(segments)[a])
                    < PositionIn(collectAllNodes(tree), Flatten(segments)[b])

\* Two raster-mandating siblings in a row: two raster segments side by side.
C31_Witness ==
  /\ ppc = "planned"
  /\ Cardinality(RasterHeads(tree)) = 2
  /\ Len(segments) = 2
  /\ segments[1].type = "raster" /\ segments[2].type = "raster"

\* A vector run flushed as one segment before a raster segment.
C31_FlushWitness ==
  /\ ppc = "planned"
  /\ Len(segments) = 2
  /\ segments[1].type = "vector" /\ segments[2].type = "raster"


-----------------------------------------------------------------------------
(* Further claims about the vector pass (SpecVec)                          *)

HandOffTypes == MergeTypes \cup {"error"}
ExportIssued == vp.pc = "export" \/ ExportLog # <<>>

\* C32: an export call of the pass is issued only when every frame of the
\* pass has its analysis and decision; a hand-off message (or the error
\* that stands for it) is in the outbox only when every frame has its
\* result, successful or failed, and from then on no call is outstanding:
\* the pass is over.
C32_PhaseOrder ==
  PassRunning =>
    /\ ExportIssued =>
         /\ Len(vp.frameAnalysis) = vp.total
         /\ \A k \in DOMAIN vp.frameAnalysis :
              vp.frameAnalysis[k].strategy \in {"skip", "vector", "png", "vector-with-fallback"}
    /\ vp.pc = "lookup" => ExportLog = <<>> /\ vp.exportResults = <<>>
    /\ OutboxOfType(HandOffTypes) # <<>> =>
         /\ vp.pc = "done"
         /\ Len(vp.exportResults) = vp.total
         /\ \A k \in DOMAIN vp.exportResults : vp.exportResults[k].id = k
    /\ vp.pc = "done" => OutboxOfType(HandOffTypes) # <<>>

\* A pass over two frames that analysed both, made several export calls
\* and handed its results off.
C32_Witness ==
  /\ PassDone /\ vp.total = 2
  /\ Len(ExportLog) >= 3
  /\ OutboxOfType(MergeTypes) # <<>>


-----------------------------------------------------------------------------
(* Claims about the request-png-fallback handler (SpecLive)                *)

FallbackTasks(ts) == { t \in ts : t.kind = "fallback" }
FallbackIds(ts) == { t.id : t \in FallbackTasks(ts) }
NewMessages == SubSeq(outbox', Len(outbox) + 1, Len(outbox'))
NewFallbackResults == SelectSeq(NewMessages, LAMBDA m : m.type = "png-fallback-result")

\* A step answers the fallback request t as the handler's code prescribes
\* from where it stood: success with the data after the export call, a
\* failure with an error otherwise.
AnswersRequest(t, m) ==
  /\ m.frameId = t.list[1] /\ m.frameIndex = t.ids[1]
  /\ m.success => t.at = "export" /\ m.pngData # "" /\ m.error = ""
  /\ ~m.success => m.pngData = "" /\ m.error # ""
  /\ t.at = "lookup" => ~m.success

TouchedTasks(kind) ==
  {t \in (tasks \ tasks') \cup (tasks' \ tasks) : t.kind = kind}

\* A step of an export handler: an export-batch or request-png-fallback
\* handler starts, resumes or ends, or the export-pdf request moves.
ExportStep ==
  \/ TouchedTasks("batch") # {}
  \/ TouchedTasks("fallback") # {}
  \/ \E k \in DOMAIN NewMessages :
       NewMessages[k].type \in {"generate-pdf", "png-fallback-result"}
  \/ req' # req
  \/ vp' # vp

\* A step of a selection handler: it starts (its selection-changed is
\* posted at once or it suspends in a scan) or it resumes from a scan.
SelectionStep ==
  \/ TouchedTasks("sel") # {}
  \/ \E k \in DOMAIN NewMessages : NewMessages[k].type = "selection-changed"

\* The step is a clear-list: both lists end empty and the one message of
\* the step is frames-updated with empty frames, connections and justAdded.
ClearedStep ==
  /\ frameData' = <<>>
  /\ connections' = <<>>
  /\ NewMessages =
       <<[type |-> "frames-updated", frames |-> <<>>, connections |-> <<>>,
          justAdded |-> <<>>]>>
  /\ tasks' = tasks

\* C34: a frame entry is created only by a selection handler and only for
\* an id that no entry has yet; the entries already in the frame list and
\* the connection list keep their fields and their order; steps of export
\* handlers leave both lists as they are; entries disappear only in a
\* clear-list step, which empties both lists and posts frames-updated with
\* empty frames, connections and justAdded.
C34_TrackedLists ==
  [][ /\ \A k \in (Len(frameData) + 1)..Len(frameData') :
           /\ IsPrefix(frameData, frameData')
           /\ SelectionStep
           /\ \E f \in DocFrames : frameData'[k] = NewFrame(f)
           /\ \A h \in 1..(k - 1) : frameData'[h].id # frameData'[k].id
      /\ ExportStep => frameData' = frameData /\ connections' = connections
      /\ (~IsPrefix(frameData, frameData') \/ ~IsPrefix(connections, connections'))
           => ClearedStep
    ]_vars

\* Two frames were tracked with a connection and the lists were cleared
\* afterwards: the notification of the clear-list follows one that listed
\* two frames, and both lists are empty.
C34_Witness ==
  /\ frameData = <<>>
  /\ connections = <<>>
  /\ \E a, b \in DOMAIN outbox :
       /\ a < b
       /\ outbox[a].type = "frames-updated" /\ Len(outbox[a].frames) = 2
       /\ outbox[a].connections # <<>>
       /\ outbox[b].type = "frames-updated" /\ outbox[b].frames = <<>>
       /\ outbox[b].connections = <<>> /\ outbox[b].justAdded = <<>>


-----------------------------------------------------------------------------
(* SpecDoc: the export handlers of one session on one frame of the          *)
(* document. The nodes of a frame are host objects shared by every handler: *)
(* itree is the frame as it is in the document, iorig its nodes before the  *)
(* first request. Frame 1 of DocFrames is that frame and it is tracked.     *)

\* The frame of the document the handlers work on.
SharedFrame == 1

\* figma.getNodeByIdAsync returned t (a frame, or NoTree for "no such node
\* or not a FRAME") to the phase-1 loop of the pass v: LookupReturned with
\* the frame the document holds.
LookupGave(v, t, conns) ==
  LET fi == FrameInfo(v.i)
      v1 == IF t = NoTree
              THEN [v EXCEPT !.frameAnalysis = Append(@, SkipAnalysis(fi)),
                             !.doc = Append(@, NoTree), !.orig = Append(@, NoTree)]
              ELSE [VecPost(v, VectorExportProgress(v.i - 1, v.total, "analysis", ""))
                      EXCEPT !.frameAnalysis = Append(@, FrameAnalysis(fi, t)),
                             !.doc = Append(@, t),
                             !.orig = Append(@, t)]
  IN IF v.i < v.total THEN [v1 EXCEPT !.i = @ + 1]
     ELSE ExportFrames([v1 EXCEPT !.i = 1], conns)

\* A handler of a vector-type export-pdf request suspended at a host call:
\* the pass v without the document, which the handlers share.
VectorTask(id, v) ==
  [id |-> id, kind |-> "vector", at |-> v.pc,
   v |-> [v EXCEPT !.out = <<>>, !.doc = <<>>, !.orig = <<>>]]

\* The effect of a run of a vector pass on the document and the session.
DocEffect(id, r, rest) ==
  /\ itree' = IF r.doc # <<>> /\ r.doc[1] # NoTree THEN r.doc[1] ELSE itree
  /\ outbox' = outbox \o r.out
  /\ tasks' = IF r.pc = "done" THEN rest ELSE rest \cup {VectorTask(id, r)}

InitDoc ==
  /\ \E kind \in 1..Len(VecCatalogue) : itree = VecCatalogue[kind]
  /\ iorig = itree.node
  /\ ipc = "shared" /\ istate = NoState /\ isoCount = 0 /\ lastSegment = <<>>
  /\ frameData = <<NewFrame(SharedFrame)>>
  /\ connections = <<>>
  /\ tasks = {} /\ nEvents = 0 /\ outbox = <<>>
  /\ PlanIdle /\ VecIdle

\* export-pdf with exportType 'vector' for the frame: exportToPDF calls
\* performVectorExport, which runs to its first lookup.
DocExportVector ==
  /\ nEvents < MaxEvents
  /\ DocEffect(nEvents + 1, PassStarted(1, connections), tasks)
  /\ nEvents' = nEvents + 1
  /\ UNCHANGED <<frameData, connections, ipc, istate, iorig, isoCount, lastSegment,
                 planVars, vecVars>>

\* The lookup of phase 1 returns: the frame is analysed as it is in the
\* document now, and phase 2 runs to its first export call.
DocLookupReturn ==
  /\ \E t \in tasks, found \in BOOLEAN :
       /\ t.kind = "vector" /\ t.at = "lookup"
       /\ DocEffect(t.id, LookupGave(t.v, IF found THEN itree ELSE NoTree, connections),
                    tasks \ {t})
  /\ UNCHANGED <<frameData, connections, nEvents, ipc, istate, iorig, isoCount,
                 lastSegment, planVars, vecVars>>

\* An export call of a pass returns or throws: the pass goes on with the
\* frame as it is in the document now.
DocExportReturn ==
  /\ \E t \in tasks :
       /\ t.kind = "vector" /\ t.at = "export"
       /\ \E outcome \in ExportOutcomes(t.v.call.format) :
            DocEffect(t.id,
                      ExportReturned([t.v EXCEPT !.doc = <<itree>>, !.orig = <<itree>>],
                                     outcome, connections),
                      tasks \ {t})
  /\ UNCHANGED <<frameData, connections, nEvents, ipc, istate, iorig, isoCount,
                 lastSegment, planVars, vecVars>>

NextDoc ==
  \/ DocExportVector
  \/ DocLookupReturn
  \/ DocExportReturn
  \/ ExportBatch
  \/ BatchLookupReturn
  \/ BatchExportReturn
  \/ PngFallbackRequest
  \/ FallbackLookupReturn
  \/ FallbackExportReturn

SpecDoc == InitDoc /\ [][NextDoc]_vars

\* ---------------------------------------------------------------------
\* Claims about handlers that share a frame (SpecDoc)

\* No handler is suspended and at least one request was received.
HandlersFinished == tasks = {} /\ nEvents > 0

\* C35: once every export handler has finished, every node of the frame
\* has the visible flag, the fills and the strokes it had before the first
\* export request.
C35_Claim ==
  HandlersFinished =>
    \A n \in 1..itree.n :
      /\ itree.node[n].visible = iorig[n].visible
      /\ itree.node[n].fills = iorig[n].fills
      /\ itree.node[n].strokes = iorig[n].strokes

\* The handler t awaits an export call that produces a buffer of the whole
\* shared frame: the PNG of performExport or of the fallback handler, or a
\* whole-frame PDF or PNG of a vector pass.
WholeFrameCall(t) ==
  /\ t.at = "export"
  /\ \/ t.kind \in {"batch", "fallback"} /\ t.list[t.i] = SharedFrame
     \/ t.kind = "vector" /\ t.v.call.role \in {"whole", "all-raster", "fallback"}

\* The handler u is suspended inside the segmented export of the shared
\* frame, between an applySegmentState and the restoreNodeState.
InsideIsolation(u) ==
  u.kind = "vector" /\ u.at = "export" /\ u.v.call.role \in {"bg", "seg"}

\* C36: no step issues an export call for a whole-frame buffer while
\* another handler is between an isolate and the matching restore of a
\* segmented export of that frame.
C36_Claim ==
  [][ \A t \in tasks' \ tasks :
        WholeFrameCall(t) => ~ \E u \in tasks \cap tasks' : InsideIsolation(u)
    ]_vars


\* ---------------------------------------------------------------------
\* Claims about the outcome of an export request (SpecLive)

\* The messages that close a request: a batch-warning, a generate-pdf, a
\* single merge-vector-pdfs, the end of a chunk stream, or an error.
TerminalTypes ==
  {"batch-warning", "generate-pdf", "merge-vector-pdfs", "merge-vector-pdfs-end",
   "error"}
TerminalOutcomes(msgs) == Len(SelectSeq(msgs, LAMBDA m : m.type \in TerminalTypes))

BatchIds(ts) == {t.id : t \in {u \in ts : u.kind = "batch"}}

\* C37, for export-batch requests: the handler of every request ends, and
\* the step that ends it posts exactly one terminal message.
C37_Claim ==
  /\ [][\A t \in tasks : BatchEnds(t) => TerminalOutcomes(Posted) = 1]_vars
  /\ \A id \in 1..MaxEvents : (id \in BatchIds(tasks)) ~> (id \notin BatchIds(tasks))


\* ---------------------------------------------------------------------
\* Claims about the results of a vector pass (SpecVec)

\* The results handed off as pdfBuffers, over all chunks, and the message
\* that carries failedFrames and summary.
HandedBuffers == Concat(SentChunks)
HandOffHead == OutboxOfType({"merge-vector-pdfs", "merge-vector-pdfs-start"})

\* A successful result holds one vector buffer, one raster buffer or a
\* list of segment buffers, and nothing else.
SuccessfulShape(r) ==
  /\ ~r.skipped /\ r.error = <<>>
  /\ \/ r.pdfData # NoData /\ r.pdfData.length > 0 /\ ~r.isPng
        /\ r.pngData = NoData /\ r.segments = <<>>
     \/ r.pngData # NoData /\ r.pngData.length > 0 /\ r.isPng
        /\ r.pdfData = NoData /\ r.segments = <<>>
     \/ r.segments # <<>> /\ r.pdfData = NoData /\ r.pngData = NoData
        /\ \A k \in DOMAIN r.segments :
             (r.segments[k].pdfData # NoData) # (r.segments[k].pngData # NoData)

SkippedShape(r) ==
  /\ r.skipped /\ r.error # <<>>
  /\ r.pdfData = NoData /\ r.pngData = NoData /\ r.segments = <<>>

CarriesFrame(r, fi) ==
  r.id = fi.id /\ r.name = fi.name /\ r.width = fi.width /\ r.height = fi.height

\* C38: when the pass is over, the results are one per frame of the
\* ordered list, each carrying that frame's id, name, width and height and
\* each either successful or skipped with an error; the pdfBuffers and the
\* failedFrames handed off are the successful and the skipped results, no
\* result is in both, and together they are summary.total entries.
C38_OneResultPerFrame ==
  PassDone =>
    /\ Len(vp.exportResults) = vp.total
    /\ \A k \in DOMAIN vp.exportResults :
         LET r == vp.exportResults[k]
         IN /\ CarriesFrame(r, FrameInfo(k))
            /\ SuccessfulShape(r) # SkippedShape(r)
    /\ \A h \in DOMAIN HandOffHead :
         LET m == HandOffHead[h]
         IN /\ Len(HandOffHead) = 1
            /\ HandedBuffers = SelectSeq(vp.exportResults, LAMBDA r : ~r.skipped)
            /\ m.failedFrames = SelectSeq(vp.exportResults, LAMBDA r : r.skipped)
            /\ \A a \in DOMAIN HandedBuffers, b \in DOMAIN m.failedFrames :
                 HandedBuffers[a].id # m.failedFrames[b].id
            /\ Len(HandedBuffers) + Len(m.failedFrames) = m.summary.total

\* A pass of two frames handed off one segmented result and one failed frame.
C38_Witness ==
  /\ PassDone
  /\ vp.total = 2
  /\ Len(HandOffHead) = 1
  /\ Len(HandOffHead[1].failedFrames) = 1
  /\ Len(HandedBuffers) = 1
  /\ HandedBuffers[1].segments # <<>>


\* ---------------------------------------------------------------------
\* Claims about the selection notifications (Spec)

\* The event whose handler runs in this step: the event delivered by the
\* step, or the event of the handler that the step resumes.
RunningEvent ==
  IF nEvents' # nEvents THEN nEvents'
  ELSE CHOOSE id \in 1..MaxEvents : \E t \in tasks \ tasks' : t.id = id

PostsSelectionChanged ==
  \E k \in DOMAIN Posted : Posted[k].type = "selection-changed"

\* C39: the selection-changed of an event is not posted while the handler
\* of an earlier selection event is still suspended in its scan (its own
\* selection-changed, posted when it resumes, would then come after the
\* later event's); and a frames-updated posted by the same step comes
\* before the selection-changed.
C39_Claim ==
  [][ PostsSelectionChanged =>
        /\ \A u \in tasks \cap tasks' : u.kind = "sel" => u.id > RunningEvent
        /\ \A a, b \in DOMAIN Posted :
             (Posted[a].type = "frames-updated" /\ Posted[b].type = "selection-changed")
               => a < b
    ]_vars

=============================================================================
